---------------------------- MODULE Spec2Model ----------------------------
(***************************************************************************)
(* A model of msrplib/protocol.py: the MSRP framer (MSRPProtocol, a        *)
(* twisted LineReceiver) and the message object (MSRPData) with its        *)
(* canonical serialisation.                                                *)
(*                                                                         *)
(* Bytes and characters are one-character strings; byte strings and text   *)
(* are sequences of them.  Python's None is the empty tuple <<>> and a     *)
(* value v that may be None is the one-element tuple <<v>>.                *)
(***************************************************************************)
EXTENDS Integers, Sequences, FiniteSets, TLC

--------------------------------------------------------------------------
(* Characters *)

CR == "\r"
LF == "\n"
SP == " "
\* a byte that can occur in no UTF-8 encoding (0xFF)
XFF == "\\xff"

delimiter == <<CR, LF>>

UPPER == {"A","B","C","D","E","F","G","H","I","J","K","L","M",
          "N","O","P","Q","R","S","T","U","V","W","X","Y","Z"}
LOWER == {"a","b","c","d","e","f","g","h","i","j","k","l","m",
          "n","o","p","q","r","s","t","u","v","w","x","y","z"}
DIGIT == {"0","1","2","3","4","5","6","7","8","9"}

DigitChars == <<"0","1","2","3","4","5","6","7","8","9">>

DigitValue(c) == CHOOSE d \in 0..9 : DigitChars[d + 1] = c

None == <<>>
Some(v) == <<v>>

--------------------------------------------------------------------------
(* Python's bytes and str operations *)

Min(a, b) == IF a < b THEN a ELSE b
Max(a, b) == IF a > b THEN a ELSE b

\* s[lo:hi], with Python's treatment of negative and out-of-range indices
PySlice(s, lo, hi) ==
    LET n  == Len(s)
        l  == IF lo < 0 THEN Max(lo + n, 0) ELSE Min(lo, n)
        h  == IF hi < 0 THEN Max(hi + n, 0) ELSE Min(hi, n)
    IN  SubSeq(s, l + 1, h)

\* s[lo:]
PyFrom(s, lo) == PySlice(s, lo, Len(s))

\* s[:hi]
PyUpTo(s, hi) == PySlice(s, 0, hi)

StartsWith(s, t) == Len(t) <= Len(s) /\ SubSeq(s, 1, Len(t)) = t

EndsWith(s, t) == Len(t) <= Len(s) /\ SubSeq(s, Len(s) - Len(t) + 1, Len(s)) = t

\* t occurs in s at the 0-based index i
OccursAt(s, t, i) == \A j \in 1..Len(t) : s[i + j] = t[j]

\* s.find(t): the 0-based index of the first occurrence of t in s, or -1
Find(s, t) ==
    LET hits == {i \in 0..(Len(s) - Len(t)) : OccursAt(s, t, i)}
    IN  IF hits = {} THEN -1 ELSE CHOOSE i \in hits : \A j \in hits : i <= j

RECURSIVE Concat(_)
Concat(ss) == IF ss = <<>> THEN <<>> ELSE Head(ss) \o Concat(Tail(ss))

RECURSIVE Join(_, _)
\* sep.join(ss)
Join(sep, ss) ==
    IF ss = <<>> THEN <<>>
    ELSE IF Len(ss) = 1 THEN ss[1]
    ELSE ss[1] \o sep \o Join(sep, Tail(ss))

RECURSIVE Decimal(_)
Decimal(n) == IF n < 10 THEN <<DigitChars[n + 1]>>
              ELSE Decimal(n \div 10) \o <<DigitChars[(n % 10) + 1]>>

\* '{:03d}'.format(n), n >= 0
Format03d(n) ==
    LET d == Decimal(n)
    IN  IF Len(d) >= 3 THEN d ELSE [i \in 1..(3 - Len(d)) |-> "0"] \o d

\* int(s) for a string of decimal digits
RECURSIVE ParseInt(_)
ParseInt(s) == IF s = <<>> THEN 0
               ELSE 10 * ParseInt(SubSeq(s, 1, Len(s) - 1)) + DigitValue(s[Len(s)])

\* bytes.decode('utf-8') succeeds (the model's only non-ASCII byte is 0xFF)
Utf8Decodes(line) == \A i \in 1..Len(line) : line[i] # XFF

\* a regular expression's $: the end of the string, or just before a final newline
AtEnd(s, taken) == taken = Len(s) \/ (taken = Len(s) - 1 /\ s[Len(s)] = LF)

--------------------------------------------------------------------------
(* Header names *)

To_Path == <<"T","o","-","P","a","t","h">>
From_Path == <<"F","r","o","m","-","P","a","t","h">>
Status == <<"S","t","a","t","u","s">>
Message_ID == <<"M","e","s","s","a","g","e","-","I","D">>
Byte_Range == <<"B","y","t","e","-","R","a","n","g","e">>
Success_Report == <<"S","u","c","c","e","s","s","-","R","e","p","o","r","t">>
Failure_Report == <<"F","a","i","l","u","r","e","-","R","e","p","o","r","t">>
Authorization == <<"A","u","t","h","o","r","i","z","a","t","i","o","n">>
Authentication_Info == <<"A","u","t","h","e","n","t","i","c","a","t","i","o","n","-","I","n","f","o">>
WWW_Authenticate == <<"W","W","W","-","A","u","t","h","e","n","t","i","c","a","t","e">>
Expires == <<"E","x","p","i","r","e","s">>
Min_Expires == <<"M","i","n","-","E","x","p","i","r","e","s">>
Max_Expires == <<"M","a","x","-","E","x","p","i","r","e","s">>
Use_Path == <<"U","s","e","-","P","a","t","h">>
Use_Nickname == <<"U","s","e","-","N","i","c","k","n","a","m","e">>
Content_ID == <<"C","o","n","t","e","n","t","-","I","D">>
Content_Description == <<"C","o","n","t","e","n","t","-","D","e","s","c","r","i","p","t","i","o","n">>
Content_Disposition == <<"C","o","n","t","e","n","t","-","D","i","s","p","o","s","i","t","i","o","n">>
Content_Type == <<"C","o","n","t","e","n","t","-","T","y","p","e">>

--------------------------------------------------------------------------
(* HeaderOrderMapping, HeaderOrdering *)

\* HeaderOrderMapping.__levels__
levels ==
    <<  <<To_Path>>,
        <<From_Path>>,
        <<Status, Message_ID, Byte_Range, Success_Report, Failure_Report,
          Authorization, Authentication_Info, WWW_Authenticate, Expires,
          Min_Expires, Max_Expires, Use_Path, Use_Nickname>>,
        <<Content_ID, Content_Description, Content_Disposition>>,
        <<Content_Type>>  >>

InList(name, list) == \E i \in 1..Len(list) : list[i] = name

\* every unlisted name at level 2
missingAlways2(key) == 2

\* HeaderOrderMapping.__missing__
missing(key) ==
    IF StartsWith(key, <<"C","o","n","t","e","n","t","-">>) THEN 3 ELSE 2

\* HeaderOrdering.sort_key: the level of a listed name (the tuple's index is
\* the level plus one), __missing__ for any other
sort_key(name) ==
    IF \E l \in 1..Len(levels) : InList(name, levels[l])
    THEN (CHOOSE l \in 1..Len(levels) : InList(name, levels[l])) - 1
    ELSE missing(name)

RECURSIVE InsertByKey(_, _)
\* x goes after every element whose key is not greater than its own
InsertByKey(sorted, x) ==
    IF sorted = <<>> THEN <<x>>
    ELSE IF sort_key(Head(sorted)) <= sort_key(x)
         THEN <<Head(sorted)>> \o InsertByKey(Tail(sorted), x)
         ELSE <<x>> \o sorted

RECURSIVE SortedByKey(_)
\* sorted(names, key=HeaderOrdering.sort_key): a stable sort
SortedByKey(names) ==
    IF names = <<>> THEN <<>>
    ELSE InsertByKey(SortedByKey(SubSeq(names, 1, Len(names) - 1)), names[Len(names)])

--------------------------------------------------------------------------
(* URI *)

\* the digits s starts with
RECURSIVE DigitRun(_)
DigitRun(s) ==
    IF s # <<>> /\ Head(s) \in DIGIT THEN <<Head(s)>> \o DigitRun(Tail(s)) ELSE <<>>

\* what can follow the host in URI._uri_re: an optional "/" session_id,
\* then ";" (whatever follows a ";" matches the transport and parameters)
AfterPort(x) ==
    x # <<>> /\ (x[1] = ";" \/ (x[1] = "/" /\ Find(x, <<";">>) >= 0))

\* the group ":" port of URI._uri_re takes part in the match
HasPort(r) ==
    /\ r # <<>>
    /\ r[1] = ":"
    /\ DigitRun(Tail(r)) # <<>>
    /\ AfterPort(PyFrom(r, 1 + Len(DigitRun(Tail(r)))))

\* the groups of URI._uri_re put together: those before the port, the port,
\* the session id and those after it
Groups(before, port, session_id, after) ==
    [ scheme     |-> before.scheme,
      user       |-> before.user,
      host       |-> before.host,
      port       |-> port,
      session_id |-> session_id,
      transport  |-> after.transport,
      parameters |-> after.parameters ]

\* the groups transport and parameters, y the text after the ";" that
\* precedes the transport and semi the place of the first ";" in it
TransportGroups(y, semi) ==
    [ transport  |-> IF semi = -1 THEN y ELSE PyUpTo(y, semi),
      parameters |-> IF semi = -1 THEN None ELSE Some(PyFrom(y, semi + 1)) ]

\* the groups from the session id on, x the text after the host and the
\* port and semi the place of its first ";"
SessionGroups(before, port, x, semi) ==
    Groups(before, port,
           IF x[1] = "/" THEN Some(PySlice(x, 1, semi)) ELSE None,
           TransportGroups(PyFrom(x, semi + 1), Find(PyFrom(x, semi + 1), <<";">>)))

\* the text after the port, r the text after the host
PortEnd(r) == IF HasPort(r) THEN PyFrom(r, 1 + Len(DigitRun(Tail(r)))) ELSE r

\* the groups from the port on, r the text after the host
PortGroups(before, r) ==
    SessionGroups(before,
                  IF HasPort(r) THEN Some(DigitRun(Tail(r))) ELSE None,
                  PortEnd(r), Find(PortEnd(r), <<";">>))

\* the length of the host: of the shortest text after which the rest of the
\* pattern matches
HostLength(hostpart) ==
    CHOOSE k \in 0..Len(hostpart) :
        /\ HasPort(PyFrom(hostpart, k)) \/ AfterPort(PyFrom(hostpart, k))
        /\ \A j \in 0..(k - 1) :
               ~(HasPort(PyFrom(hostpart, j)) \/ AfterPort(PyFrom(hostpart, j)))

\* the groups from the host on, hostpart the text after the user
HostGroups(scheme, userpart, hostpart, length) ==
    PortGroups([scheme |-> scheme, user |-> userpart, host |-> PyUpTo(hostpart, length)],
               PyFrom(hostpart, length))

\* the groups from the user on, rest the text after "://" and a the place of
\* its first "@": the user ends there if a ";" comes after it
UserGroups(scheme, rest, a) ==
    IF a >= 0 /\ Find(PyFrom(rest, a + 1), <<";">>) >= 0
    THEN HostGroups(scheme, Some(PyUpTo(rest, a)), PyFrom(rest, a + 1),
                    HostLength(PyFrom(rest, a + 1)))
    ELSE HostGroups(scheme, None, rest, HostLength(rest))

\* the match of a text whose first "://" is at i
SchemeGroups(t, i) ==
    IF i = -1 \/ Find(PyFrom(t, i + 3), <<";">>) = -1 THEN None
    ELSE Some(UserGroups(PyUpTo(t, i), PyFrom(t, i + 3), Find(PyFrom(t, i + 3), <<"@">>)))

\* URI._uri_re.match(value) for a value without a line feed: None, or the
\* groups.  The scheme ends at the first "://", and the pattern matches when
\* a ";" follows it somewhere.
uri_re_line(t) == SchemeGroups(t, Find(t, <<":", "/", "/">>))

\* URI._uri_re.match(value): "." matches no line feed and "$" matches at
\* the end and before a line feed that ends the value
uri_re(value) ==
    IF \E k \in 1..(Len(value) - 1) : value[k] = LF THEN None
    ELSE IF value # <<>> /\ value[Len(value)] = LF
    THEN uri_re_line(SubSeq(value, 1, Len(value) - 1))
    ELSE uri_re_line(value)

RECURSIVE Split(_, _)
\* s.split(sep)
Split(s, sep) ==
    LET i == Find(s, sep)
    IN  IF i = -1 THEN <<s>> ELSE <<PyUpTo(s, i)>> \o Split(PyFrom(s, i + Len(sep)), sep)

\* dict(param.split('=') for param in parameters.split(';')): None where it
\* raises ValueError, else the pairs in the order of their names' first
\* occurrence, each name with its last value
ParametersDict(parameters) ==
    LET parts == Split(parameters, <<";">>)
        pairs == [k \in 1..Len(parts) |-> Split(parts[k], <<"=">>)]
        first(k) == \A j \in 1..(k - 1) : pairs[j][1] # pairs[k][1]
        last(name) == CHOOSE k \in 1..Len(pairs) :
                          /\ pairs[k][1] = name
                          /\ \A j \in (k + 1)..Len(pairs) : pairs[j][1] # name
        keys == SelectSeq([k \in 1..Len(pairs) |-> IF first(k) THEN <<pairs[k][1]>> ELSE <<>>],
                          LAMBDA e : e # <<>>)
    IN  IF \E k \in 1..Len(pairs) : Len(pairs[k]) # 2 THEN None
        ELSE Some([k \in 1..Len(keys) |-> <<keys[k][1], pairs[last(keys[k][1])][2]>>])

\* host_module.default_ip, the host of a URI made without one
default_ip == <<"d","e","f","a","u","l","t","_","i","p">>

\* the session id URI.__init__ makes up when it is given none
generated_session_id == <<"g","e","n","e","r","a","t","e","d">>

\* the URI that URI.parse makes of the groups g and the parameters
UriOf(g, parameters) ==
    [ use_tls    |-> g.scheme = <<"m","s","r","p","s">>,
      user       |-> g.user,
      host       |-> IF g.host = <<>> THEN default_ip ELSE g.host,
      port       |-> IF g.port = None THEN 2855 ELSE ParseInt(g.port[1]),
      session_id |-> IF g.session_id = None THEN generated_session_id
                     ELSE g.session_id[1],
      transport  |-> g.transport,
      parameters |-> parameters ]

\* URI.parse after the match, parameters the dictionary made of the group
\* parameters, None where making it raises
ParseGroups(g, parameters) ==
    IF g.scheme \notin {<<"m","s","r","p">>, <<"m","s","r","p","s">>}
    THEN <<Some("ParsingError"), None>>
    ELSE IF g.transport # <<"t","c","p">> THEN <<Some("ParsingError"), None>>
    ELSE IF parameters = None THEN <<Some("ParsingError"), None>>
    ELSE <<None, Some(UriOf(g, parameters[1]))>>

\* URI.parse after URI._uri_re.match
ParseMatch(match) ==
    IF match = None THEN <<Some("ParsingError"), None>>
    ELSE ParseGroups(match[1],
                     IF match[1].parameters = None THEN Some(<<>>)
                     ELSE ParametersDict(match[1].parameters[1]))

\* URI.parse(value): <<the exception raised, the URI returned>>
URI_parse(value) == ParseMatch(uri_re(value))

--------------------------------------------------------------------------
(* Header types: decode makes the decoded form of a header's text, encode  *)
(* the text of a decoded form.  A URI list is a sequence of URIs, a byte   *)
(* range <<start, end, total>> and a status <<code, comment>> with None    *)
(* for an unknown part, a dictionary the sequence of its <<name, value>>    *)
(* pairs, a content disposition <<disposition, dictionary>>.                *)

\* ConnectInfo.scheme
scheme(u) == IF u.use_tls THEN <<"m","s","r","p","s">> ELSE <<"m","s","r","p">>

\* URI.__str__
URI_str(u) ==
    scheme(u) \o <<":", "/", "/">>
    \o (IF u.user # None /\ u.user # Some(<<>>) THEN u.user[1] \o <<"@">> ELSE <<>>)
    \o u.host
    \o (IF u.port # 0 THEN <<":">> \o Decimal(u.port) ELSE <<>>)
    \o (IF u.session_id # <<>> THEN <<"/">> \o u.session_id ELSE <<>>)
    \o <<";">> \o u.transport
    \o Concat([k \in 1..Len(u.parameters) |->
                  <<";">> \o u.parameters[k][1] \o <<"=">> \o u.parameters[k][2]])

\* the type attribute of the header class registered for a name, of
\* MSRPHeader for any other name
HeaderType(name) ==
    CASE name \in {To_Path, From_Path, Use_Path} -> "URIHeaderType"
      [] name = Success_Report -> "SuccessReportHeaderType"
      [] name = Failure_Report -> "FailureReportHeaderType"
      [] name = Byte_Range -> "ByteRangeHeaderType"
      [] name = Status -> "StatusHeaderType"
      [] name \in {Expires, Min_Expires, Max_Expires} -> "IntegerHeaderType"
      [] name \in {WWW_Authenticate, Authorization} -> "DigestHeaderType"
      [] name = Authentication_Info -> "ParameterListHeaderType"
      [] name = Content_Disposition -> "ContentDispositionHeaderType"
      [] name = Use_Nickname -> "UTF8HeaderType"
      [] OTHER -> "SimpleHeaderType"

\* LimitedChoiceHeaderType.allowed_values
allowed_values(type) ==
    IF type = "SuccessReportHeaderType" THEN {<<"y","e","s">>, <<"n","o">>}
    ELSE {<<"y","e","s">>, <<"n","o">>, <<"p","a","r","t","i","a","l">>}

\* s.partition(sep): <<the text before sep, sep or '', the text after it>>
Partition(s, sep) ==
    IF Find(s, sep) = -1 THEN <<s, <<>>, <<>>>>
    ELSE <<PyUpTo(s, Find(s, sep)), sep, PyFrom(s, Find(s, sep) + Len(sep))>>

\* the characters of s before the first one outside the set
RECURSIVE Run(_, _)
Run(s, set) == IF s # <<>> /\ Head(s) \in set THEN <<Head(s)>> \o Run(Tail(s), set) ELSE <<>>

\* int(s) accepts s: digits after an optional sign, spaces around them (the
\* underscores and the other white space int() takes are not modelled)
RECURSIVE IsInt(_)
IsInt(s) ==
    IF s # <<>> /\ Head(s) = SP THEN IsInt(Tail(s))
    ELSE IF s # <<>> /\ s[Len(s)] = SP THEN IsInt(SubSeq(s, 1, Len(s) - 1))
    ELSE IF s # <<>> /\ Head(s) \in {"+", "-"} THEN Tail(s) # <<>> /\ Run(Tail(s), DIGIT) = Tail(s)
    ELSE s # <<>> /\ Run(s, DIGIT) = s

\* int(s) where IsInt(s)
RECURSIVE IntOf(_)
IntOf(s) ==
    IF Head(s) = SP THEN IntOf(Tail(s))
    ELSE IF s[Len(s)] = SP THEN IntOf(SubSeq(s, 1, Len(s) - 1))
    ELSE IF Head(s) = "-" THEN 0 - ParseInt(Tail(s))
    ELSE IF Head(s) = "+" THEN ParseInt(Tail(s))
    ELSE ParseInt(s)

\* str(n)
Str(n) == IF n < 0 THEN <<"-">> \o Decimal(0 - n) ELSE Decimal(n)

\* the text a "\*|\d+" of ByteRangeHeaderType.regex takes at the start of s
StarOrDigits(s) == IF s # <<>> /\ Head(s) = "*" THEN <<"*">> ELSE Run(s, DIGIT)

\* the value of an end or a total of a byte range
Unknown(text) == IF text = <<"*">> THEN None ELSE Some(ParseInt(text))

\* ByteRangeHeaderType.decode, first the text after the start and its "-",
\* then the text after the end and its "/"
ByteRangeTotal(start, end, s) ==
    IF StarOrDigits(s) = <<>> THEN <<Some("ValueError"), None>>
    ELSE <<None, <<ParseInt(start), Unknown(end), Unknown(StarOrDigits(s))>>>>

ByteRangeEnd(start, s) ==
    IF StarOrDigits(s) = <<>> \/ ~StartsWith(PyFrom(s, Len(StarOrDigits(s))), <<"/">>)
    THEN <<Some("ValueError"), None>>
    ELSE ByteRangeTotal(start, StarOrDigits(s), PyFrom(s, Len(StarOrDigits(s)) + 1))

\* ByteRangeHeaderType.decode: regex.match takes a text that begins with a
\* byte range
ByteRangeDecode(encoded) ==
    IF Run(encoded, DIGIT) = <<>> \/ ~StartsWith(PyFrom(encoded, Len(Run(encoded, DIGIT))), <<"-">>)
    THEN <<Some("ValueError"), None>>
    ELSE ByteRangeEnd(Run(encoded, DIGIT), PyFrom(encoded, Len(Run(encoded, DIGIT)) + 1))

\* StatusHeaderType.decode after the first partition, and after the second
StatusCode(code, comment) ==
    IF code = <<>> \/ Run(code, DIGIT) # code \/ Len(code) # 3 THEN <<Some("ValueError"), None>>
    ELSE <<None, <<ParseInt(code), IF comment = <<>> THEN None ELSE Some(comment)>>>>

StatusDecode(first) ==
    IF first[1] # <<"0","0","0">> \/ first[2] # <<SP>> THEN <<Some("ValueError"), None>>
    ELSE StatusCode(Partition(first[3], <<SP>>)[1], Partition(first[3], <<SP>>)[3])

\* \w of a regular expression (ASCII)
WORD == UPPER \cup LOWER \cup DIGIT \cup {"_"}

\* the text a ("[^"]+"|[^"<sep>]+) takes at the start of s, <<>> if none
ValueText(s, sep) ==
    IF s # <<>> /\ Head(s) = "\"" 
    THEN IF Find(Tail(s), <<"\"">>) >= 1 THEN PyUpTo(s, Find(Tail(s), <<"\"">>) + 2) ELSE <<>>
    ELSE Run(s, {c \in {s[k] : k \in 1..Len(s)} : c \notin {"\"", sep}})

\* value.strip('"') of such a text
Unquoted(text) == IF Head(text) = "\"" THEN SubSeq(text, 2, Len(text) - 1) ELSE text

\* regex.findall(s) for the regex (\w+)=("[^"]+"|[^"<sep>]+), word the word
\* characters s starts with: the <<name, value text>> pairs
RECURSIVE FindAll(_, _, _)
FindAll(s, sep, word) ==
    IF s = <<>> THEN <<>>
    ELSE IF /\ word # <<>>
            /\ StartsWith(PyFrom(s, Len(word)), <<"=">>)
            /\ ValueText(PyFrom(s, Len(word) + 1), sep) # <<>>
    THEN <<<<word, Unquoted(ValueText(PyFrom(s, Len(word) + 1), sep))>>>>
         \o FindAll(PyFrom(s, Len(word) + 1 + Len(ValueText(PyFrom(s, Len(word) + 1), sep))), sep,
                    Run(PyFrom(s, Len(word) + 1 + Len(ValueText(PyFrom(s, Len(word) + 1), sep))), WORD))
    ELSE FindAll(Tail(s), sep, Run(Tail(s), WORD))

\* the dictionary made of pairs: a name keeps the place of its first
\* occurrence and has the value of its last
RECURSIVE Dict(_)
Dict(pairs) ==
    IF pairs = <<>> THEN <<>>
    ELSE IF \E k \in 1..(Len(pairs) - 1) : pairs[k][1] = pairs[Len(pairs)][1]
    THEN [k \in 1..(Len(Dict(SubSeq(pairs, 1, Len(pairs) - 1)))) |->
             IF Dict(SubSeq(pairs, 1, Len(pairs) - 1))[k][1] = pairs[Len(pairs)][1]
             THEN pairs[Len(pairs)]
             ELSE Dict(SubSeq(pairs, 1, Len(pairs) - 1))[k]]
    ELSE Append(Dict(SubSeq(pairs, 1, Len(pairs) - 1)), pairs[Len(pairs)])

\* ParameterListHeaderType.decode, and ContentDispositionHeaderType's use of
\* its own regex
ParameterList(s, sep) == Dict(FindAll(s, sep, Run(s, WORD)))

\* the URIs of a list of results of URI.parse
UriList(results) ==
    IF \E k \in 1..Len(results) : results[k][1] # None THEN <<Some("ParsingError"), None>>
    ELSE <<None, [k \in 1..Len(results) |-> results[k][2][1]]>>

\* type.decode(encoded): <<the exception raised, the decoded value>>
type_decode(type, encoded) ==
    CASE type = "URIHeaderType" ->
           UriList([k \in 1..Len(Split(encoded, <<SP>>)) |-> URI_parse(Split(encoded, <<SP>>)[k])])
      [] type = "IntegerHeaderType" ->
           IF IsInt(encoded) THEN <<None, IntOf(encoded)>> ELSE <<Some("ValueError"), None>>
      [] type \in {"SuccessReportHeaderType", "FailureReportHeaderType"} ->
           IF encoded \in allowed_values(type) THEN <<None, encoded>>
           ELSE <<Some("ValueError"), None>>
      [] type = "ByteRangeHeaderType" -> ByteRangeDecode(encoded)
      [] type = "StatusHeaderType" -> StatusDecode(Partition(encoded, <<SP>>))
      [] type = "ContentDispositionHeaderType" ->
           IF Partition(encoded, <<";">>)[1] = <<>> THEN <<Some("ValueError"), None>>
           ELSE <<None, <<Partition(encoded, <<";">>)[1],
                          ParameterList(Partition(encoded, <<";">>)[3], ";")>>>>
      [] type = "ParameterListHeaderType" -> <<None, ParameterList(encoded, ",")>>
      [] type = "DigestHeaderType" ->
           IF Partition(encoded, <<SP>>)[1] # <<"D","i","g","e","s","t">>
              \/ Partition(encoded, <<SP>>)[2] # <<SP>>
           THEN <<Some("ValueError"), None>>
           ELSE <<None, ParameterList(Partition(encoded, <<SP>>)[3], ",")>>
      [] OTHER -> <<None, encoded>>

\* '{}="{}"'.format(name, value) for the items of a dictionary
Items(dict) ==
    [k \in 1..Len(dict) |-> dict[k][1] \o <<"=", "\"">> \o dict[k][2] \o <<"\"">>]

\* '*' if part is None else part
StarOr(part) == IF part = None THEN <<"*">> ELSE Str(part[1])

\* type.encode(decoded)
type_encode(type, decoded) ==
    CASE type = "URIHeaderType" ->
           Join(<<SP>>, [k \in 1..Len(decoded) |-> URI_str(decoded[k])])
      [] type = "IntegerHeaderType" -> Str(decoded)
      [] type = "ByteRangeHeaderType" ->
           Str(decoded[1]) \o <<"-">> \o StarOr(decoded[2]) \o <<"/">> \o StarOr(decoded[3])
      [] type = "StatusHeaderType" ->
           <<"0","0","0",SP>> \o Format03d(decoded[1])
           \o (IF decoded[2] = None THEN <<>> ELSE <<SP>> \o decoded[2][1])
      [] type = "ContentDispositionHeaderType" ->
           Join(<<";", SP>>, <<decoded[1]>> \o Items(decoded[2]))
      [] type = "ParameterListHeaderType" -> Join(<<",", SP>>, Items(decoded))
      [] type = "DigestHeaderType" ->
           <<"D","i","g","e","s","t",SP>> \o Join(<<",", SP>>, Items(decoded))
      [] OTHER -> decoded

--------------------------------------------------------------------------
(* MSRPHeader: a name, and the value in its encoded form (text) or in its  *)
(* decoded form; a header made from text holds the text as its encoded    *)
(* form.                                                                   *)

MSRPHeader(name, value) == [name |-> name, encoded |-> Some(value), decoded |-> None]

\* MSRPHeader.encoded of a header made from text
HeaderEncoded(h) == h.encoded[1]

\* a read of MSRPHeader.decoded where the decoded form is r[2], or where
\* making it raises r[1]: the header after it, the exception raised and the
\* value returned
DecodedRead(h, r) ==
    IF r[1] # None THEN [header |-> h, raised |-> Some("HeaderParsingError"), value |-> None]
    ELSE [header |-> [h EXCEPT !.decoded = Some(r[2])], raised |-> None, value |-> Some(r[2])]

\* a read of MSRPHeader.decoded: the form held, or else the one
\* type.decode makes of the encoded form
decoded_read(h) ==
    DecodedRead(h, IF h.decoded # None THEN <<None, h.decoded[1]>>
                   ELSE type_decode(HeaderType(h.name), h.encoded[1]))

\* a read of MSRPHeader.encoded where the encoded form is text: the header
\* after it and the value returned
EncodedRead(h, text) == [header |-> [h EXCEPT !.encoded = Some(text)], value |-> text]

\* a read of MSRPHeader.encoded: the form held, or else the one
\* type.encode makes of the decoded form
encoded_read(h) ==
    EncodedRead(h, IF h.encoded # None THEN h.encoded[1]
                   ELSE type_encode(HeaderType(h.name), h.decoded[1]))

\* a setter of encoded that leaves the decoded form in place
set_encoded_keeping(h, encoded) == [h EXCEPT !.encoded = Some(encoded)]

\* MSRPHeader.encoded = encoded
set_encoded(h, encoded) == [h EXCEPT !.encoded = Some(encoded), !.decoded = None]

\* MSRPHeader.decoded = decoded, for a decoded that is an instance of the
\* type's data_type
set_decoded(h, decoded) == [h EXCEPT !.decoded = Some(decoded), !.encoded = None]

\* type.data_type, by its name (object for the types that keep the text)
data_type(type) ==
    CASE type = "URIHeaderType" -> "deque"
      [] type = "IntegerHeaderType" -> "int"
      [] type = "ByteRangeHeaderType" -> "ByteRange"
      [] type = "StatusHeaderType" -> "Status"
      [] type = "ContentDispositionHeaderType" -> "ContentDisposition"
      [] type \in {"ParameterListHeaderType", "DigestHeaderType"} -> "dict"
      [] OTHER -> "object"

\* the value the setter of decoded stores for given, a <<class, value>>: the
\* value itself if it is an instance of data_type, else data_type(value);
\* <<the exception raised, the value stored>>.  Of the conversions only
\* int(text) is modelled, and ByteRange(x) and Status(x), which raise.
Coerced(type, given) ==
    IF data_type(type) \in {"object", given[1]} THEN <<None, given[2]>>
    ELSE IF data_type(type) = "int" /\ given[1] = "str" /\ IsInt(given[2])
    THEN <<None, IntOf(given[2])>>
    ELSE <<Some("TypeError"), None>>

\* MSRPHeader.decoded = given[2]: <<the header after it, the exception raised>>
decoded_write(h, given) ==
    IF Coerced(HeaderType(h.name), given)[1] # None
    THEN <<h, Coerced(HeaderType(h.name), given)[1]>>
    ELSE <<set_decoded(h, Coerced(HeaderType(h.name), given)[2]), None>>

--------------------------------------------------------------------------
(* HeaderMapping: a dict keeps its keys in insertion order, so the mapping  *)
(* is the sequence of its headers, at most one per name.                    *)

HeaderNames(headers) == [i \in 1..Len(headers) |-> headers[i].name]

HasHeader(headers, name) == \E i \in 1..Len(headers) : headers[i].name = name

GetHeader(headers, name) == headers[CHOOSE i \in 1..Len(headers) : headers[i].name = name]

\* HeaderMapping.__setitem__: a key already present keeps its place
SetItem(headers, header) ==
    IF HasHeader(headers, header.name)
    THEN [i \in 1..Len(headers) |->
            IF headers[i].name = header.name THEN header ELSE headers[i]]
    ELSE Append(headers, header)

--------------------------------------------------------------------------
(* MSRPData *)

\* a constructor that takes a method together with a code
ConstructionAcceptedBoth(method, code, comment) ==
    /\ ~(method = None /\ code = None)
    /\ ~(code = None /\ comment # None)

\* the three ValueErrors of MSRPData.__init__
ConstructionAccepted(method, code, comment) ==
    /\ ~(method = None /\ code = None)
    /\ ~(method # None /\ code # None)
    /\ ~(code = None /\ comment # None)

FirstLine(transaction_id, method, code, comment) ==
    IF method # None
    THEN <<"M","S","R","P"," ">> \o transaction_id \o <<SP>> \o method[1]
    ELSE IF comment = None
    THEN <<"M","S","R","P"," ">> \o transaction_id \o <<SP>> \o Format03d(code[1])
    ELSE <<"M","S","R","P"," ">> \o transaction_id \o <<SP>> \o Format03d(code[1])
             \o <<SP>> \o comment[1]

\* MSRPData.__init__ (arguments that pass its three checks)
MSRPData(transaction_id, method, code, comment, headers, data, contflag) ==
    [ transaction_id   |-> transaction_id,
      method           |-> method,
      code             |-> code,
      comment          |-> comment,
      headers          |-> headers,
      headers_modified |-> TRUE,
      data             |-> data,
      contflag         |-> contflag,
      chunk_header     |-> None,
      chunk_footer     |-> None,
      first_line       |-> FirstLine(transaction_id, method, code, comment),
      modified         |-> TRUE,
      encoded_header   |-> None ]

RECURSIVE VerifyFrom(_, _)
\* the loop of MSRPData.verify_headers at the k-th header, read its read of
\* header.decoded
VerifyStep(headers, k, read) ==
    IF read.raised # None
    THEN <<headers, read.raised, Some(<<headers[k].name, "cannot be decoded">>)>>
    ELSE VerifyFrom([headers EXCEPT ![k] = read.header], k + 1)

\* the loop of MSRPData.verify_headers over the headers from the k-th on:
\* <<the headers after it, the exception raised, the header it names>>
VerifyFrom(headers, k) ==
    IF k > Len(headers) THEN <<headers, None, None>>
    ELSE VerifyStep(headers, k, decoded_read(headers[k]))

\* the end of MSRPData.verify_headers, loop what its loop came to
Verified(m, loop) == <<[m EXCEPT !.headers = loop[1]], loop[2], loop[3]>>

\* MSRPData.verify_headers: <<the message after it, the exception raised,
\* the header the exception names and why>>
verify_headers(m) ==
    IF ~HasHeader(m.headers, To_Path)
    THEN <<m, Some("HeaderParsingError"), Some(<<To_Path, "header is missing">>)>>
    ELSE IF ~HasHeader(m.headers, From_Path)
    THEN <<m, Some("HeaderParsingError"), Some(<<From_Path, "header is missing">>)>>
    ELSE Verified(m, VerifyFrom(m.headers, 1))

\* MSRPData.add_header
add_header(m, header) ==
    [m EXCEPT !.headers = SetItem(@, header), !.headers_modified = TRUE]

HeaderLine(headers, name) == name \o <<":", SP>> \o HeaderEncoded(GetHeader(headers, name))

\* the block MSRPData.encoded_header builds when a modified flag is set
HeaderBlock(m) ==
    LET names == SortedByKey(HeaderNames(m.headers))
        lines == <<m.first_line>>
                 \o [i \in 1..Len(names) |-> HeaderLine(m.headers, names[i])]
                 \o (IF HasHeader(m.headers, Content_Type) THEN <<delimiter>> ELSE <<>>)
    IN  Join(delimiter, lines)

\* the message after a read of MSRPData.encoded_header
encoded_header_read(m) ==
    IF m.modified \/ m.headers_modified
    THEN [m EXCEPT !.encoded_header = Some(HeaderBlock(m)),
                   !.modified = FALSE, !.headers_modified = FALSE]
    ELSE m

\* the value MSRPData.encoded_header returns
encoded_header(m) == encoded_header_read(m).encoded_header[1]

\* MSRPData.encoded_footer
encoded_footer(m) ==
    delimiter \o <<"-","-","-","-","-","-","-">> \o m.transaction_id \o m.contflag \o delimiter

\* the bytes MSRPData.encode returns
encode(m) == encoded_header(m) \o m.data \o encoded_footer(m)

--------------------------------------------------------------------------
(* The sink: msrp_transport and its logger.  Each call is recorded, with   *)
(* its arguments, in the framer's list of events.                          *)

DataStart(m) == [type |-> "data_start", msg |-> Some(m), data |-> <<>>, final |-> FALSE]

DataWrite(contents, final) ==
    [type |-> "data_write", msg |-> None, data |-> contents, final |-> final]

DataEnd(continuation) ==
    [type |-> "data_end", msg |-> None, data |-> continuation, final |-> FALSE]

IllegalData(data) == [type |-> "illegal_data", msg |-> None, data |-> data, final |-> FALSE]

--------------------------------------------------------------------------
(* MSRPProtocol *)

MAX_LENGTH == 16384
MAX_LINES == 64

TidFirst == UPPER \cup LOWER \cup DIGIT
TidRest == UPPER \cup LOWER \cup DIGIT \cup {".", "+", "%", "=", "-"}
MethodChars == UPPER \cup {"_"}
ContinuationFlags == {"$", "#", "+"}

AllIn(s, set) == \A i \in 1..Len(s) : s[i] \in set

\* s without the one final newline a regular expression's $ tolerates
BeforeFinalNewline(s) ==
    IF s # <<>> /\ s[Len(s)] = LF THEN SubSeq(s, 1, Len(s) - 1) ELSE s

\* a grammar that takes every line starting with "MSRP " for a SEND
first_line_re_any(line) ==
    IF ~StartsWith(line, <<"M","S","R","P"," ">>) THEN None
    ELSE Some(<<PyFrom(line, 5), Some(<<"S","E","N","D">>), None, None>>)

\* first_line_re.match(line).groups(): None, or <<tid, method, code, comment>>
\* with None for a group that took no part in the match
first_line_re(line) ==
    IF ~StartsWith(line, <<"M","S","R","P"," ">>) THEN None
    ELSE
      LET rest == PyFrom(line, 5)
          sp   == Find(rest, <<SP>>)
          tid  == PyUpTo(rest, sp)
          tail == PyFrom(rest, sp + 1)
          word == BeforeFinalNewline(tail)
          more == PyFrom(tail, 4)
      IN  IF sp = -1 \/ Len(tid) < 4 \/ Len(tid) > 32
             \/ tid[1] \notin TidFirst \/ ~AllIn(tid, TidRest)
          THEN None
          ELSE IF word # <<>> /\ AllIn(word, MethodChars)
          THEN Some(<<tid, Some(word), None, None>>)
          ELSE IF Len(tail) >= 3 /\ AllIn(PyUpTo(tail, 3), DIGIT)
          THEN IF AtEnd(tail, 3)
               THEN Some(<<tid, None, Some(PyUpTo(tail, 3)), None>>)
               ELSE IF /\ tail[4] = SP
                       /\ BeforeFinalNewline(more) # <<>>
                       /\ \A i \in 1..Len(BeforeFinalNewline(more)) :
                              BeforeFinalNewline(more)[i] # LF
               THEN Some(<<tid, None, Some(PyUpTo(tail, 3)), Some(BeforeFinalNewline(more))>>)
               ELSE None
          ELSE None

\* the pattern lineReceived compiles for a new chunk (line 684), and the one
\* it compiles on entering the body (line 646)
LineTermRe(transaction_id) == [kind |-> "end_line", tid |-> transaction_id]
BodyTermRe(transaction_id) == [kind |-> "body", tid |-> transaction_id]

\* the places where "\r\n-------<tid>", a flag and "\r\n" occur in s
BodyTermHits(tid, s) ==
    {i \in 0..Len(s) :
        \E c \in ContinuationFlags :
            StartsWith(PyFrom(s, i),
                       delimiter \o <<"-","-","-","-","-","-","-">> \o tid \o <<c>> \o delimiter)}

\* an end-line pattern that takes the end-line of any transaction
term_re_match_any(term_re, line) ==
    IF /\ Len(line) > 8
       /\ StartsWith(line, <<"-","-","-","-","-","-","-">>)
       /\ line[Len(line)] \in {"$", "#", "+"}
    THEN Some(<<line[Len(line)]>>)
    ELSE None

\* term_re.match(line).group(1), or None without a match.  The end-line
\* pattern is ^-------<tid>([$#+])$; the body pattern is
\* ^(.*)\r\n-------<tid>([$#+])\r\n(.*)$ with DOTALL, whose first group is
\* greedy.
term_re_match(term_re, line) ==
    IF term_re = None THEN None
    ELSE IF term_re[1].kind = "end_line"
    THEN LET s == BeforeFinalNewline(line)
             head == <<"-","-","-","-","-","-","-">> \o term_re[1].tid
         IN  IF /\ Len(s) = Len(head) + 1
                /\ StartsWith(s, head)
                /\ s[Len(s)] \in ContinuationFlags
             THEN Some(<<s[Len(s)]>>)
             ELSE None
    ELSE LET hits == BodyTermHits(term_re[1].tid, line)
         IN  IF hits = {} THEN None
             ELSE Some(PyUpTo(line, CHOOSE i \in hits : \A j \in hits : j <= i))

\* the list lineReceived builds on entering the body: every non-empty prefix
\* of the terminator, then the terminator with each flag and with each flag
\* and CR; reversed
term_substrings_of(terminator) ==
    LET continue_flags == << <<"$", CR, LF>>, <<"#", CR, LF>>, <<"+", CR, LF>> >>
        prefixes == [i \in 1..Len(terminator) |-> PyUpTo(terminator, i)]
        flagged  == [k \in 1..6 |->
                        terminator \o PyUpTo(continue_flags[((k - 1) \div 2) + 1],
                                             ((k - 1) % 2) + 1)]
        list     == prefixes \o flagged
    IN  [i \in 1..Len(list) |-> list[Len(list) + 1 - i]]

\* MSRPProtocol.__init__, with LineReceiver's line_mode and _buffer; rx (the
\* number of bytes the transport has delivered) and body_at (for each
\* _data_start, the offset in the stream at which the body starts, or -1
\* for a chunk that ended in line mode) are history, not program state
NewProtocol ==
    [ line_mode       |-> TRUE,
      buffer          |-> <<>>,
      term_buf        |-> <<>>,
      term_re         |-> None,
      term_substrings |-> <<>>,
      data            |-> None,
      line_count      |-> 0,
      events          |-> <<>>,
      rx              |-> 0,
      body_at         |-> <<>> ]

\* MSRPProtocol._reset
reset(p) == [p EXCEPT !.data = None, !.line_count = 0]

\* MSRPProtocol.lineLengthExceeded
lineLengthExceeded(p, line) == reset(p)

\* a split at the first ':'
SplitHeaderAtColon(decoded_line) ==
    LET i == Find(decoded_line, <<":">>)
    IN  IF i = -1 THEN None
        ELSE Some(<<PyUpTo(decoded_line, i), PyFrom(decoded_line, i + 1)>>)

\* decoded_line.split(': ', 1): <<name, value>>, or None where unpacking the
\* result raises ValueError (no ': ' in the line)
SplitHeader(decoded_line) ==
    LET i == Find(decoded_line, <<":", SP>>)
    IN  IF i = -1 THEN None
        ELSE Some(<<PyUpTo(decoded_line, i), PyFrom(decoded_line, i + 2)>>)

\* the test made one line early
TooManyLinesAtLimit(line_count) == line_count >= MAX_LINES

\* the test lineReceived makes after counting a header line
TooManyLines(line_count) == line_count > MAX_LINES

\* an entry to the body that leaves term_buf as it is
EnterBodyKeeping(p) ==
    LET started == [p.data[1] EXCEPT !.chunk_header = Some(@[1] \o delimiter)]
    IN  [p EXCEPT !.term_re = Some(BodyTermRe(p.data[1].transaction_id)),
                  !.term_substrings =
                      term_substrings_of(delimiter \o <<"-","-","-","-","-","-","-">>
                                           \o p.data[1].transaction_id),
                  !.data = Some(started),
                  !.events = Append(@, DataStart(started)),
                  !.body_at = Append(@, p.rx - Len(p.buffer)),
                  !.line_mode = FALSE]

\* lineReceived with the empty line that ends a chunk's header lines (lines
\* 642 to 650): term_buf is emptied, the patterns of the body are made, the
\* chunk is started at the sink and raw mode is entered
EnterBody(p) ==
    LET terminator == delimiter \o <<"-","-","-","-","-","-","-">>
                        \o p.data[1].transaction_id
        started == [p.data[1] EXCEPT !.chunk_header = Some(@[1] \o delimiter)]
    IN  [p EXCEPT !.term_buf = <<>>,
                  !.term_re = Some(BodyTermRe(p.data[1].transaction_id)),
                  !.term_substrings = term_substrings_of(terminator),
                  !.data = Some(started),
                  !.events = Append(@, DataStart(started)),
                  !.body_at = Append(@, p.rx - Len(p.buffer)),
                  !.line_mode = FALSE]

\* MSRPProtocol.lineReceived
lineReceived(p, line) ==
    LET decodes == Utf8Decodes(line)
    IN
    IF p.data # None THEN
        IF Len(line) = 0 THEN EnterBody(p)
        ELSE
            LET match == IF decodes THEN term_re_match(p.term_re, line) ELSE None
            IN
            IF match # None THEN
                LET ended == [p.data[1] EXCEPT !.chunk_footer = Some(line \o delimiter)]
                IN  reset([p EXCEPT !.events = @ \o <<DataStart(ended), DataEnd(match[1])>>,
                                    !.body_at = Append(@, -1)])
            ELSE
                LET chunk_header == p.data[1].chunk_header[1] \o line \o delimiter
                    q == [p EXCEPT !.data = Some([@[1] EXCEPT !.chunk_header = Some(chunk_header)]),
                                   !.line_count = @ + 1]
                    split == IF decodes THEN SplitHeader(line) ELSE None
                IN
                IF TooManyLines(q.line_count)
                THEN reset([q EXCEPT !.events = Append(@, IllegalData(chunk_header))])
                ELSE IF split = None THEN q
                ELSE [q EXCEPT !.data = Some(add_header(@[1], MSRPHeader(split[1][1], split[1][2])))]
    ELSE
        LET match == IF decodes /\ line # <<>> THEN first_line_re(line) ELSE None
        IN
        IF match # None THEN
            LET transaction_id == match[1][1]
                method  == match[1][2]
                code    == IF match[1][3] # None THEN Some(ParseInt(match[1][3][1])) ELSE None
                comment == match[1][4]
                created == MSRPData(transaction_id, method, code, comment, <<>>, <<>>, <<"$">>)
            IN  [p EXCEPT !.data = Some([created EXCEPT !.chunk_header = Some(line \o delimiter)]),
                          !.term_re = Some(LineTermRe(transaction_id))]
        ELSE [p EXCEPT !.events = Append(@, IllegalData(line \o delimiter))]

\* a framer that keeps back all it has
MatchingTermWhole(term_substrings, data) == data

\* a framer that keeps nothing back
MatchingTermNone(term_substrings, data) == <<>>

\* a framer that does not keep back a lone CR
MatchingTermNoCR(term_substrings, data) ==
    LET hits == {i \in 1..Len(term_substrings) :
                    /\ Len(term_substrings[i]) > 1
                    /\ data # <<>> /\ EndsWith(data, term_substrings[i])}
    IN  IF hits = {} THEN <<>>
        ELSE term_substrings[CHOOSE i \in hits : \A j \in hits : i <= j]

\* the for loop of rawDataReceived: the first entry of term_substrings that
\* data ends with, or the empty string when the loop runs to its else
MatchingTerm(term_substrings, data) ==
    LET hits == {i \in 1..Len(term_substrings) :
                    data # <<>> /\ EndsWith(data, term_substrings[i])}
    IN  IF hits = {} THEN <<>>
        ELSE term_substrings[CHOOSE i \in hits : \A j \in hits : i <= j]

\* the flag rawDataReceived takes from the bytes after the terminator
Continuation(leftover) == PyUpTo(leftover, Find(leftover, delimiter))

\* the bytes rawDataReceived hands back to the line parser
Extra(leftover) ==
    PyFrom(leftover, Find(leftover, delimiter) + Len(Continuation(leftover)) + 1)

\* a framer that ends the chunk at the terminator and stays in raw mode
rawDataReceivedStaying(p, received) ==
    IF p.data = None THEN p
    ELSE IF Find(p.term_buf \o received,
                 delimiter \o <<"-","-","-","-","-","-","-">> \o p.data[1].transaction_id) > -1
    THEN [reset(p) EXCEPT !.events = Append(@, DataEnd(<<"$">>)), !.term_buf = <<>>]
    ELSE [p EXCEPT !.events = Append(@, DataWrite(p.term_buf \o received, FALSE)),
                   !.term_buf = <<>>]

\* MSRPProtocol.rawDataReceived, with the setLineMode(extra) it ends in:
\* dataReceived is running, so the nested dataReceived(extra) only appends
\* extra to LineReceiver's buffer
rawDataReceived(p, received) ==
    LET data == p.term_buf \o received
        terminator == delimiter \o <<"-","-","-","-","-","-","-">>
                        \o p.data[1].transaction_id
        contents_position == Find(data, terminator)
    IN
    IF contents_position > -1 THEN
        LET contents == PyUpTo(data, contents_position)
            leftover == PyFrom(data, contents_position + Len(terminator))
            continuation == Continuation(leftover)
            extra == Extra(leftover)
            written == IF contents # <<>> THEN <<DataWrite(contents, TRUE)>> ELSE <<>>
        IN  [reset(p) EXCEPT !.events = @ \o written \o <<DataEnd(continuation)>>,
                             !.line_mode = TRUE,
                             !.buffer = @ \o extra]
    ELSE
        LET term == MatchingTerm(p.term_substrings, data)
        IN  [p EXCEPT !.term_buf = term,
                      !.events = Append(@, DataWrite(PyUpTo(data, Len(data) - Len(term)), FALSE))]

RECURSIVE ReceiveLoop(_)
\* the while loop of LineReceiver.dataReceived
ReceiveLoop(p) ==
    IF p.buffer = <<>> THEN p
    ELSE IF p.line_mode THEN
        LET i == Find(p.buffer, delimiter)
        IN  IF i = -1
            THEN IF Len(p.buffer) >= MAX_LENGTH + Len(delimiter)
                 THEN lineLengthExceeded([p EXCEPT !.buffer = <<>>], p.buffer)
                 ELSE p
            ELSE IF i > MAX_LENGTH
            THEN lineLengthExceeded([p EXCEPT !.buffer = <<>>], p.buffer)
            ELSE ReceiveLoop(lineReceived([p EXCEPT !.buffer = PyFrom(p.buffer, i + 2)],
                                          PyUpTo(p.buffer, i)))
    ELSE ReceiveLoop(rawDataReceived([p EXCEPT !.buffer = <<>>], p.buffer))

\* LineReceiver.dataReceived, called by the transport with a block of bytes
dataReceived(p, block) ==
    ReceiveLoop([p EXCEPT !.buffer = @ \o block, !.rx = @ + Len(block)])

--------------------------------------------------------------------------
(* What the peer sends: a sequence of items, each a chunk in one of three  *)
(* wire forms or a run of other bytes.                                     *)
(*   "body"      first line, header lines, an empty line, the body, then   *)
(*               CRLF "-------" tid flag CRLF                              *)
(*   "bodyless"  first line, header lines, then "-------" tid flag CRLF    *)
(*   "blank"     first line, header lines, an empty line, then             *)
(*               "-------" tid flag CRLF                                   *)
(*   "bytes"     the bytes of body, as they are                            *)

Item(form, first, lines, body, tid, flag) ==
    [form |-> form, first |-> first, lines |-> lines, body |-> body, tid |-> tid, flag |-> flag]

Bytes(b) == Item("bytes", <<>>, <<>>, b, <<>>, <<>>)

EndLine(tid, flag) == <<"-","-","-","-","-","-","-">> \o tid \o flag \o delimiter

HeadWire(item) ==
    item.first \o delimiter
    \o Concat([i \in 1..Len(item.lines) |-> item.lines[i] \o delimiter])

Wire(item) ==
    IF item.form = "bytes" THEN item.body
    ELSE IF item.form = "bodyless" THEN HeadWire(item) \o EndLine(item.tid, item.flag)
    ELSE IF item.form = "blank"
    THEN HeadWire(item) \o delimiter \o EndLine(item.tid, item.flag)
    ELSE HeadWire(item) \o delimiter \o item.body \o delimiter \o EndLine(item.tid, item.flag)

Stream(items) == Concat([i \in 1..Len(items) |-> Wire(items[i])])

--------------------------------------------------------------------------
(* Bounds of the model *)

\* the number of blocks the transport delivers a stream in
MaxBlocks == 3
\* the length of the bodies enumerated over BodyBytes
MaxBody == 1
\* the number of headers a user adds to a message
MaxHeaders == 3
\* the length of the blocks delivered when a stream is delivered in steps
MaxStep == 3

--------------------------------------------------------------------------
(* The streams delivered to the framer *)

T4 == <<"a","b","c","d">>
T8 == <<"a","b","c","d","e","f","g","h">>

Send(tid) == <<"M","S","R","P"," ">> \o tid \o <<" ","S","E","N","D">>
Response(tid) == <<"M","S","R","P"," ">> \o tid \o <<" ","2","0","0"," ","O","K">>

ToPathLine == To_Path \o <<":", " ", "x">>
ShortLine == <<"k", ":", " ", "v">>
Hi == <<"H", "i">>

BodyBytes == {CR, LF, "-", "a"}

SeqsUpTo(S, n) == UNION {[1..k -> S] : k \in 0..n}

Repeat(x, n) == [i \in 1..n |-> x]

Scenarios ==
    \* one chunk with a body: every short body, and Hi with each flag
    { <<Item("body", Send(T4), <<>>, b, T4, <<"$">>)>> : b \in SeqsUpTo(BodyBytes, MaxBody) }
    \cup { <<Item("body", Send(T4), <<ToPathLine>>, Hi, T4, <<f>>)>> : f \in ContinuationFlags }
    \cup {
    \* a body holding a partial terminator
    <<Item("body", Send(T4), <<>>, <<CR, LF, "-", "-", "-", "-", "-", "-", "-", "a", "b", "X">>, T4, <<"+">>)>>,
    \* a chunk followed by other bytes, and by a second chunk with a shorter tid
    <<Item("body", Response(T4), <<>>, Hi, T4, <<"$">>), Bytes(<<"Z", "Z", CR, LF>>)>>,
    <<Item("body", Send(T8), <<>>, <<"a">>, T8, <<"+">>),
      Item("body", Send(T4), <<ShortLine>>, <<"b">>, T4, <<"$">>)>>,
    \* chunks without a body
    <<Item("bodyless", Send(T4), <<ToPathLine, ShortLine>>, <<>>, T4, <<"$">>)>>,
    <<Item("bodyless", Response(T4), <<>>, <<>>, T4, <<"#">>),
      Item("bodyless", Send(T4), <<>>, <<>>, T4, <<"+">>)>>,
    <<Item("blank", Send(T4), <<ToPathLine, ShortLine>>, <<>>, T4, <<"$">>)>>,
    \* bytes that are no chunk, and an empty line, before a chunk
    <<Bytes(<<"Z", "Z", CR, LF, CR, LF>>), Item("bodyless", Send(T4), <<>>, <<>>, T4, <<"$">>)>>,
    \* a terminator followed by something else than a flag
    <<Item("body", Send(T4), <<>>, Hi, T4, <<"e", "$">>)>>,
    \* header lines that are no headers: no ": ", not UTF-8, another chunk's end-line
    <<Item("bodyless", Send(T4),
           <<ShortLine, <<"k">>, <<XFF>>, <<"-","-","-","-","-","-","-","a","b","c","e","$">>, ShortLine>>,
           <<>>, T4, <<"$">>)>>,
    <<Item("bodyless", Send(T4), Repeat(<<"k">>, 3), <<>>, T4, <<"$">>)>>,
    \* a line that starts no chunk, then a chunk
    <<Bytes(<<"Z", "Z", CR, LF>>), Item("bodyless", Send(T4), <<ToPathLine>>, <<>>, T4, <<"#">>)>>
    }

\* chunks with MAX_LINES header lines, and with one more
LineScenarios == {
    <<Item("bodyless", Send(T4), Repeat(<<"k">>, MAX_LINES), <<>>, T4, <<"$">>)>>,
    <<Item("bodyless", Send(T4), Repeat(<<"k">>, MAX_LINES + 1), <<>>, T4, <<"$">>)>>,
    <<Item("body", Send(T4), Repeat(ShortLine, MAX_LINES), Hi, T4, <<"$">>)>>,
    <<Item("body", Send(T4), Repeat(ShortLine, MAX_LINES + 1), Hi, T4, <<"$">>),
      Item("bodyless", Send(T4), <<ShortLine>>, <<>>, T4, <<"$">>)>>
    }

--------------------------------------------------------------------------
(* State *)

VARIABLES
    sent,               \* the items the peer sends (fixed from the start)
    nblocks,            \* the number of blocks delivered so far
    rx,                 \* the number of bytes delivered so far
    line_mode,          \* LineReceiver.line_mode
    buffer,             \* LineReceiver._buffer
    term_buf,           \* MSRPProtocol.term_buf
    term_re,            \* MSRPProtocol.term_re
    term_substrings,    \* MSRPProtocol.term_substrings
    data,               \* MSRPProtocol.data
    line_count,         \* MSRPProtocol.line_count
    events,             \* the calls made to the sink, in order
    body_at,            \* per _data_start, where in the stream the body starts
    msg,                \* a message object in the hands of a user
    copied,             \* the copy made of msg, if one was made
    shared,             \* the names whose header object msg and the copy both hold
    outcome,            \* the last operation of the user and how it ended
    steps,              \* the number of operations of the user so far
    hdr,                \* a header object in the hands of a user
    written,            \* the form of hdr last written, and the value
    uri                 \* a text given to URI.parse

framer == <<line_mode, buffer, term_buf, term_re, term_substrings, data, line_count,
            events, body_at, rx>>

user == <<copied, shared, outcome, steps, hdr, written, uri>>

vars == <<sent, nblocks, framer, msg, user>>

\* the protocol object
Self ==
    [ line_mode       |-> line_mode,
      buffer          |-> buffer,
      term_buf        |-> term_buf,
      term_re         |-> term_re,
      term_substrings |-> term_substrings,
      data            |-> data,
      line_count      |-> line_count,
      events          |-> events,
      rx              |-> rx,
      body_at         |-> body_at ]

Becomes(q) ==
    /\ line_mode' = q.line_mode
    /\ buffer' = q.buffer
    /\ term_buf' = q.term_buf
    /\ term_re' = q.term_re
    /\ term_substrings' = q.term_substrings
    /\ data' = q.data
    /\ line_count' = q.line_count
    /\ events' = q.events
    /\ rx' = q.rx
    /\ body_at' = q.body_at

stream == Stream(sent)

NoMessage == MSRPData(T4, Some(<<"S","E","N","D">>), None, None, <<>>, <<>>, <<"$">>)

\* an operation of the user and how it ended: its arguments, the exception
\* raised (None when none was) and the value returned
Outcome(op, args, raised, value) ==
    [op |-> op, args |-> args, raised |-> raised, value |-> value]

NoOutcome == Outcome("", <<>>, None, None)

\* no user at work
InitUser ==
    /\ copied = None
    /\ shared = {}
    /\ outcome = NoOutcome
    /\ steps = 0
    /\ hdr = MSRPHeader(<<"k">>, <<"v">>)
    /\ written = <<"encoded", <<"v">>>>
    /\ uri = <<>>

InitFramer ==
    /\ nblocks = 0
    /\ line_mode = NewProtocol.line_mode
    /\ buffer = NewProtocol.buffer
    /\ term_buf = NewProtocol.term_buf
    /\ term_re = NewProtocol.term_re
    /\ term_substrings = NewProtocol.term_substrings
    /\ data = NewProtocol.data
    /\ line_count = NewProtocol.line_count
    /\ events = NewProtocol.events
    /\ rx = NewProtocol.rx
    /\ body_at = NewProtocol.body_at

Init ==
    /\ sent \in Scenarios
    /\ InitFramer
    /\ InitUser
    /\ msg = NoMessage

\* the transport delivers the next k bytes of the stream
Deliver ==
    /\ nblocks < MaxBlocks
    /\ LET bytes == stream
       IN  \E k \in 1..(Len(bytes) - rx) :
               Becomes(dataReceived(Self, SubSeq(bytes, rx + 1, rx + k)))
    /\ nblocks' = nblocks + 1
    /\ UNCHANGED <<sent, msg, user>>

Next == Deliver

\* a stream delivered in at most MaxBlocks blocks of any length
Spec == Init /\ [][Next]_vars

InitLines ==
    /\ sent \in LineScenarios
    /\ InitFramer
    /\ InitUser
    /\ msg = NoMessage

\* the transport delivers the next k bytes of the stream, k <= MaxStep
DeliverStep ==
    /\ LET bytes == stream
       IN  \E k \in 1..Min(MaxStep, Len(bytes) - rx) :
               Becomes(dataReceived(Self, SubSeq(bytes, rx + 1, rx + k)))
    /\ UNCHANGED <<sent, nblocks, msg, user>>

NextLines == DeliverStep

\* a long stream delivered to its end in blocks of at most MaxStep bytes
SpecLines == InitLines /\ [][NextLines]_vars

--------------------------------------------------------------------------
(* A message in the hands of a user *)

HeaderChoices ==
    { MSRPHeader(To_Path, <<"x">>), MSRPHeader(To_Path, <<"y">>),
      MSRPHeader(From_Path, <<"x">>), MSRPHeader(Message_ID, <<"x">>),
      MSRPHeader(Content_ID, <<"x">>), MSRPHeader(Content_Type, <<"x">>),
      MSRPHeader(<<"X","-","F","o","o">>, <<"x">>),
      MSRPHeader(<<"C","o","n","t","e","n","t","-","F","o","o">>, <<"x">>) }

\* the messages a user starts from: a request and two responses, without a
\* body and with one, with each continuation flag
StartMessages ==
    { MSRPData(T4, Some(<<"S","E","N","D">>), None, None, <<>>, <<>>, <<"$">>),
      MSRPData(T4, Some(<<"S","E","N","D">>), None, None, <<>>, Hi, <<"+">>),
      MSRPData(T4, None, Some(200), Some(<<"O","K">>), <<>>, Hi, <<"#">>),
      MSRPData(T4, None, Some(200), Some(<<"O","K">>), <<>>, <<>>, <<"+">>),
      MSRPData(T4, None, Some(7), None, <<>>, <<>>, <<"#">>),
      MSRPData(T4, None, Some(7), None, <<>>, Hi, <<"$">>) }

InitMsg ==
    /\ sent = <<>>
    /\ InitFramer
    /\ InitUser
    /\ msg \in StartMessages

\* msg.add_header(header)
AddHeader ==
    /\ \E header \in HeaderChoices :
        /\ HasHeader(msg.headers, header.name) \/ Len(msg.headers) < MaxHeaders
        /\ msg' = add_header(msg, header)
    /\ UNCHANGED <<sent, nblocks, framer, user>>

\* msg.encode(), which reads msg.encoded_header
Encode ==
    /\ msg' = encoded_header_read(msg)
    /\ UNCHANGED <<sent, nblocks, framer, user>>

NextMsg == AddHeader \/ Encode

SpecMsg == InitMsg /\ [][NextMsg]_vars

--------------------------------------------------------------------------
(* Reading the sink's events *)

Terminator(tid) == delimiter \o <<"-","-","-","-","-","-","-">> \o tid

\* the events from the k-th _data_start up to the next one
IsStart(e) == e.type = "data_start"

StartIndexes(evs) == {i \in 1..Len(evs) : IsStart(evs[i])}

\* the index in evs of its k-th _data_start
StartIndex(evs, k) ==
    CHOOSE i \in StartIndexes(evs) : Cardinality({j \in StartIndexes(evs) : j <= i}) = k

\* the bytes written to the sink between the event at index i and the next
\* _data_start
RECURSIVE WrittenAfter(_, _)
WrittenAfter(evs, i) ==
    IF i >= Len(evs) \/ IsStart(evs[i + 1]) THEN <<>>
    ELSE (IF evs[i + 1].type = "data_write" THEN evs[i + 1].data ELSE <<>>)
         \o WrittenAfter(evs, i + 1)

IsPrefix(a, b) == Len(a) <= Len(b) /\ SubSeq(b, 1, Len(a)) = a

RECURSIVE Grouped(_)
\* the events with the writes that follow one another made one write of
\* their bytes (none, when they are no bytes), the final marks left out
Grouped(evs) ==
    IF evs = <<>> THEN <<>>
    ELSE IF Head(evs).type # "data_write" THEN <<Head(evs)>> \o Grouped(Tail(evs))
    ELSE LET rest == Grouped(Tail(evs))
         IN  IF rest # <<>> /\ Head(rest).type = "data_write"
             THEN <<DataWrite(Head(evs).data \o Head(rest).data, FALSE)>> \o Tail(rest)
             ELSE IF Head(evs).data = <<>> THEN rest
             ELSE <<DataWrite(Head(evs).data, FALSE)>> \o rest

\* the sink's events when the whole stream is delivered in a single call
SingleCallEvents == dataReceived(NewProtocol, stream).events

Delivered == rx = Len(stream)

--------------------------------------------------------------------------
(* Claims about the framer *)

\* C1: once the whole stream is delivered, the sink has seen the events a
\* single call delivering the stream produces, however the stream was cut
\* into blocks.  Stated up to the grouping of a chunk's body bytes into
\* writes (and their final marks), which no framer that forwards the body
\* block by block can keep; every other event and argument is compared as
\* it is.
C1_SameEventsAsSingleCall ==
    Delivered => Grouped(events) = Grouped(SingleCallEvents)

C3_FlagIsLegal ==
    \A i \in 1..Len(events) :
        events[i].type = "data_end" => events[i].data \in {<<"$">>, <<"#">>, <<"+">>}

\* one well-formed chunk with a body that is not empty
WellFormedBodyChunk ==
    /\ Len(sent) = 1
    /\ sent[1].form = "body"
    /\ sent[1].body # <<>>
    /\ sent[1].flag \in {<<"$">>, <<"#">>, <<"+">>}
    /\ Find(sent[1].body \o Terminator(sent[1].tid), Terminator(sent[1].tid)) = Len(sent[1].body)

\* C4: a well-formed chunk with a body gives _data_start, then writes whose
\* bytes are the body, the last one (and no other) final, then _data_end with
\* the flag sent
C4_StartWritesEnd ==
    (WellFormedBodyChunk /\ Delivered) =>
        LET n == Len(events)
        IN  /\ n >= 3
            /\ events[1].type = "data_start"
            /\ \A i \in 2..(n - 1) :
                   events[i].type = "data_write" /\ events[i].final = (i = n - 1)
            /\ WrittenAfter(events, 1) = sent[1].body
            /\ events[n] = DataEnd(sent[1].flag)

\* a SEND chunk whose header lines are followed by an empty line and then by
\* "-------" tid "$" CRLF
BlankBodylessSend ==
    /\ Len(sent) = 1
    /\ sent[1].form = "blank"
    /\ sent[1].first = Send(sent[1].tid)
    /\ sent[1].flag = <<"$">>

\* C5: such a chunk gives _data_start (SEND, the tid, its headers), then
\* _data_end with "$", no write, and the framer is idle again
C5_BlankBodyless ==
    (BlankBodylessSend /\ Delivered) =>
        /\ Len(events) = 2
        /\ events[1].type = "data_start"
        /\ events[1].msg[1].method = Some(<<"S","E","N","D">>)
        /\ events[1].msg[1].transaction_id = sent[1].tid
        /\ [i \in 1..Len(events[1].msg[1].headers) |->
               HeaderLine(events[1].msg[1].headers, events[1].msg[1].headers[i].name)]
           = sent[1].lines
        /\ events[2] = DataEnd(<<"$">>)
        /\ data = None
        /\ line_mode

\* C6 as claimed: while a chunk is being received, term_buf holds at most
\* len(terminator) + 2 bytes, the terminator being that chunk's
C6_StraddleBoundAlways ==
    data # None => Len(term_buf) <= Len(Terminator(data[1].transaction_id)) + 2

\* C6 as amended: in raw mode (the chunk's body is being received) term_buf
\* holds at most len(terminator) + 2 bytes
C6_StraddleBoundInBody ==
    (~line_mode /\ data # None) =>
        Len(term_buf) <= Len(Terminator(data[1].transaction_id)) + 2

\* C6 witness: all of the terminator but its last byte is kept back
C6_Witness ==
    /\ ~line_mode
    /\ data # None
    /\ term_buf # <<>>
    /\ Len(term_buf) = Len(Terminator(data[1].transaction_id)) - 1

\* the number of lines (each ended by CRLF) in the bytes s
CountLines(s) == Cardinality({i \in 0..(Len(s) - 2) : OccursAt(s, delimiter, i)})

\* the first line and the first n header lines of a chunk, as sent
HeadLines(item, n) ==
    item.first \o delimiter \o Concat([i \in 1..n |-> item.lines[i] \o delimiter])

\* C7: a chunk accumulates at most MAX_LINES (64) header lines.  The counter
\* never exceeds 64, is 0 when no chunk is being received and otherwise counts
\* the header lines accumulated in the chunk; when the 65th header line of a
\* chunk has arrived, illegal-data has been reported with the lines received
\* and, before anything else arrives, the message is gone and the framer is
\* idle with the counter at 0; a chunk of 64 header lines is started as it is.
C7_AtMost64HeaderLines ==
    /\ line_count <= MAX_LINES
    /\ data = None => line_count = 0
    /\ data # None =>
           line_count = CountLines(data[1].chunk_header[1]) - (IF line_mode THEN 1 ELSE 2)
    /\ (sent # <<>> /\ sent[1].form # "bytes") =>
         LET over    == HeadLines(sent[1], MAX_LINES + 1)
             started == IF sent[1].form = "bodyless" THEN Len(Wire(sent[1]))
                        ELSE Len(HeadWire(sent[1])) + 2
         IN  IF Len(sent[1].lines) > MAX_LINES
             THEN rx >= Len(over) =>
                     /\ events # <<>>
                     /\ events[1] = IllegalData(over)
                     /\ rx = Len(over) => (Len(events) = 1 /\ data = None /\ line_mode /\ line_count = 0)
             ELSE rx >= started =>
                     /\ events # <<>>
                     /\ events[1].type = "data_start"
                     /\ PyUpTo(events[1].msg[1].chunk_header[1], Len(HeadWire(sent[1]))) = HeadWire(sent[1])

\* C7 witness: the 65th header line of a chunk has just arrived and was
\* reported
C7_Witness ==
    /\ sent # <<>>
    /\ Len(sent[1].lines) = MAX_LINES + 1
    /\ rx = Len(HeadLines(sent[1], MAX_LINES + 1))
    /\ Len(events) = 1
    /\ events[1].type = "illegal_data"
    /\ line_count = 0

--------------------------------------------------------------------------
(* Claims about a message's serialization *)

\* the sink's events when the framer is given the bytes of msg
Parsed == dataReceived(NewProtocol, encode(msg)).events

HeaderSet(headers) ==
    {<<headers[i].name, HeaderEncoded(headers[i])>> : i \in 1..Len(headers)}

\* C8: the framer, given encode(msg), reports a chunk start, body writes and
\* a chunk end that together are msg: its first line, its headers, its body
\* and its continuation flag
C8_RoundTrip ==
    LET evs == Parsed
        n   == Len(evs)
    IN  /\ n >= 2
        /\ evs[1].type = "data_start"
        /\ \A i \in 2..(n - 1) : evs[i].type = "data_write"
        /\ evs[n].type = "data_end"
        /\ evs[1].msg[1].first_line = msg.first_line
        /\ HeaderSet(evs[1].msg[1].headers) = HeaderSet(msg.headers)
        /\ WrittenAfter(evs, 1) = msg.data
        /\ evs[n].data = msg.contflag

\* HEADER_BLOCK: first_line, then each header as "Name: value", the lines
\* separated by CRLF
HEADER_BLOCK(m) ==
    LET names == SortedByKey(HeaderNames(m.headers))
    IN  Join(delimiter, <<m.first_line>>
                        \o [i \in 1..Len(names) |-> HeaderLine(m.headers, names[i])])

\* C9, for a message with a body: encode gives HEADER_BLOCK CRLF, one more
\* CRLF exactly when Content-Type is present, the body, and END_LINE (CRLF
\* "-------" tid contflag CRLF); the body starts on a line of its own
C9_BodyOnItsOwnLine ==
    msg.data # <<>> =>
        encode(msg) = HEADER_BLOCK(msg) \o delimiter
                      \o (IF HasHeader(msg.headers, Content_Type) THEN delimiter ELSE <<>>)
                      \o msg.data
                      \o delimiter \o EndLine(msg.transaction_id, msg.contflag)

RECURSIVE SplitLines(_)
\* the lines of s, which CRLF separates
SplitLines(s) ==
    LET i == Find(s, delimiter)
    IN  IF i = -1 THEN (IF s = <<>> THEN <<>> ELSE <<s>>)
        ELSE <<PyUpTo(s, i)>> \o SplitLines(PyFrom(s, i + 2))

\* the header names in the serialized header block of msg, in its order
SerializedNames ==
    LET all   == SplitLines(encoded_header(msg))
        lines == SelectSeq(Tail(all), LAMBDA l : l # <<>>)
    IN  [i \in 1..Len(lines) |-> PyUpTo(lines[i], Find(lines[i], <<":", SP>>))]

\* the levels as the ordering is described
Level(name) ==
    IF name = To_Path THEN 0
    ELSE IF name = From_Path THEN 1
    ELSE IF name = Content_Type THEN 4
    ELSE IF StartsWith(name, <<"C","o","n","t","e","n","t","-">>) THEN 3
    ELSE 2

\* the place of name among the headers of msg, in the order they were added
Added(name) == CHOOSE i \in 1..Len(msg.headers) : msg.headers[i].name = name

\* C10: the serialized header block holds the headers of msg by level, not
\* decreasing (To-Path 0, From-Path 1, Content-Type 4, any other "Content-"
\* name 3, any other name 2), and those of one level in the order they were
\* added
C10_HeaderOrder ==
    LET names == SerializedNames
    IN  /\ Len(names) = Len(msg.headers)
        /\ {names[i] : i \in 1..Len(names)} = {msg.headers[i].name : i \in 1..Len(msg.headers)}
        /\ \A i, j \in 1..Len(names) :
               i < j => /\ Level(names[i]) <= Level(names[j])
                        /\ Level(names[i]) = Level(names[j]) => Added(names[i]) < Added(names[j])

\* C10 witness: three headers added from the last level to the first, two of
\* them unlisted, and the header block built
C10_Witness ==
    /\ HeaderNames(msg.headers)
         = << Content_Type, <<"C","o","n","t","e","n","t","-","F","o","o">>, <<"X","-","F","o","o">> >>
    /\ msg.encoded_header # None
    /\ ~msg.headers_modified

--------------------------------------------------------------------------
(* A message object under the operations of a user *)

RECURSIVE Replace(_, _, _)
\* s.replace(old, new), old not empty: every occurrence of old, from the left
Replace(s, old, new) ==
    IF Len(s) < Len(old) THEN s
    ELSE IF StartsWith(s, old) THEN new \o Replace(PyFrom(s, Len(old)), old, new)
    ELSE <<Head(s)>> \o Replace(Tail(s), old, new)

\* MSRPData.__immutable__
immutable == {"method", "code", "comment", "headers"}

\* an attribute that was deleted
Absent == <<"absent">>

\* MSRPData.__setattr__ on a constructed message: <<the message after, the
\* exception raised>>
setattr(m, name, value) ==
    IF name \in immutable THEN <<m, Some("AttributeError")>>
    ELSE IF name = "transaction_id"
    THEN <<[m EXCEPT !.first_line = Replace(@, m.transaction_id, value),
                     !.modified = TRUE,
                     !.transaction_id = value], None>>
    ELSE <<[m EXCEPT ![name] = value], None>>

\* MSRPData.__delattr__
delattr(m, name) ==
    IF name \in immutable THEN <<m, Some("AttributeError")>>
    ELSE <<[m EXCEPT ![name] = Absent], None>>

\* the number of operations of a user
MaxOps == 3

\* transaction ids, two of them words of the first line
Tids == {T4, <<"M","S","R","P">>, <<"S","E","N","D">>}

Methods == {None, Some(<<"S","E","N","D">>)}
Codes == {None, Some(200)}
Comments == {None, Some(<<"O","K">>)}

\* MSRPData(transaction_id, method, code, comment): a message, or ValueError
Construct ==
    /\ steps < MaxOps
    /\ \E tid \in Tids, method \in Methods, code \in Codes, comment \in Comments :
        IF ConstructionAccepted(method, code, comment)
        THEN /\ msg' = MSRPData(tid, method, code, comment, <<>>, <<>>, <<"$">>)
             /\ outcome' = Outcome("MSRPData", <<method, code, comment>>, None, None)
        ELSE /\ msg' = msg
             /\ outcome' = Outcome("MSRPData", <<method, code, comment>>, Some("ValueError"), None)
    /\ steps' = steps + 1
    /\ UNCHANGED <<sent, nblocks, framer, copied, shared, hdr, written, uri>>

\* the values a user assigns to an attribute
Assignable(name) ==
    IF name = "method" THEN Methods
    ELSE IF name = "code" THEN Codes
    ELSE IF name = "comment" THEN Comments
    ELSE IF name = "headers" THEN {<<>>}
    ELSE IF name = "contflag" THEN {<<"+">>}
    ELSE IF name = "transaction_id" THEN Tids
    ELSE {Hi}

\* msg.name = value
SetAttr ==
    /\ steps < MaxOps
    /\ \E name \in immutable \cup {"transaction_id", "data", "contflag"} : \E value \in Assignable(name) :
        /\ msg' = setattr(msg, name, value)[1]
        /\ outcome' = Outcome("setattr", <<name, value>>, setattr(msg, name, value)[2], None)
    /\ steps' = steps + 1
    /\ UNCHANGED <<sent, nblocks, framer, copied, shared, hdr, written, uri>>

\* del msg.name
DelAttr ==
    /\ steps < MaxOps
    /\ \E name \in immutable \cup {"chunk_footer"} :
        /\ msg' = delattr(msg, name)[1]
        /\ outcome' = Outcome("delattr", <<name>>, delattr(msg, name)[2], None)
    /\ steps' = steps + 1
    /\ UNCHANGED <<sent, nblocks, framer, copied, shared, hdr, written, uri>>

InitObj ==
    /\ sent = <<>>
    /\ InitFramer
    /\ InitUser
    /\ msg \in StartMessages

NextObj == Construct \/ SetAttr \/ DelAttr

\* a message constructed, assigned to and deleted from, MaxOps times
SpecObj == InitObj /\ [][NextObj]_vars

--------------------------------------------------------------------------
(* Claims about a message object *)

\* C11: a message has a method or a code, never both and never neither, and
\* a comment only with a code; a construction with both, with neither or with
\* a comment and no code raises (ValueError) and any other gives a message;
\* an assignment to, and a deletion of, method, code, comment or headers
\* raises (AttributeError) and leaves the message as it was.
C11_MethodXorCode ==
    /\ [](/\ (msg.method = None) # (msg.code = None)
          /\ msg.comment # None => msg.code # None)
    /\ [][ /\ outcome'.op = "MSRPData" =>
                LET method  == outcome'.args[1]
                    code    == outcome'.args[2]
                    comment == outcome'.args[3]
                    bad     == \/ (method # None /\ code # None)
                               \/ (method = None /\ code = None)
                               \/ (comment # None /\ code = None)
                IN  /\ bad => (outcome'.raised = Some("ValueError") /\ msg' = msg)
                    /\ ~bad => (outcome'.raised = None /\ msg'.method = method
                                /\ msg'.code = code /\ msg'.comment = comment)
           /\ (outcome'.op \in {"setattr", "delattr"} /\ outcome'.args[1] \in immutable) =>
                (outcome'.raised = Some("AttributeError") /\ msg' = msg)
         ]_vars

\* C11 witness: an assignment to code was refused on a message made with a
\* method
C11_Witness ==
    /\ outcome.op = "setattr"
    /\ outcome.args = <<"code", Some(200)>>
    /\ outcome.raised = Some("AttributeError")
    /\ msg.method # None
    /\ msg.code = None

\* C12: whatever was assigned to transaction_id, first_line is "MSRP tid
\* METHOD" or "MSRP tid CCC[ comment]" with the message's tid, method, code
\* and comment, and the end-line of encode carries the same tid
C12_FirstLineFollowsTid ==
    /\ msg.first_line = FirstLine(msg.transaction_id, msg.method, msg.code, msg.comment)
    /\ encoded_footer(msg) = delimiter \o EndLine(msg.transaction_id, msg.contflag)

--------------------------------------------------------------------------
(* The header container of a message under the operations of a user.  Each *)
(* operation gives <<the message after, the exception raised, the value    *)
(* returned>>; the container's __modified__ is headers_modified.            *)

\* the headers without the one named key
Without(headers, key) == SelectSeq(headers, LAMBDA h : h.name # key)

\* HeaderMapping.__delitem__
delitem(m, key) ==
    IF HasHeader(m.headers, key)
    THEN <<[m EXCEPT !.headers = Without(@, key), !.headers_modified = TRUE], None, None>>
    ELSE <<m, Some("KeyError"), None>>

\* HeaderMapping.pop(key) and, with default = Some(d), HeaderMapping.pop(key, d)
pop(m, key, default) ==
    IF HasHeader(m.headers, key)
    THEN <<[m EXCEPT !.headers = Without(@, key), !.headers_modified = TRUE],
           None, Some(GetHeader(m.headers, key))>>
    ELSE IF default = None THEN <<m, Some("KeyError"), None>>
    ELSE <<[m EXCEPT !.headers_modified = TRUE], None, default>>

\* HeaderMapping.popitem: the header added last
popitem(m) ==
    IF m.headers = <<>> THEN <<m, Some("KeyError"), None>>
    ELSE <<[m EXCEPT !.headers = SubSeq(@, 1, Len(@) - 1), !.headers_modified = TRUE],
           None, Some(m.headers[Len(m.headers)])>>

\* HeaderMapping.setdefault(key, header)
setdefault(m, key, header) ==
    IF HasHeader(m.headers, key)
    THEN <<[m EXCEPT !.headers_modified = TRUE], None, Some(GetHeader(m.headers, key))>>
    ELSE <<[m EXCEPT !.headers = Append(@, header), !.headers_modified = TRUE],
           None, Some(header)>>

RECURSIVE SetItems(_, _)
SetItems(headers, others) ==
    IF others = <<>> THEN headers
    ELSE SetItems(SetItem(headers, Head(others)), Tail(others))

\* HeaderMapping.update(others), others a mapping of names to headers
update(m, others) ==
    <<[m EXCEPT !.headers = SetItems(@, others), !.headers_modified = TRUE], None, None>>

\* a clear that leaves __modified__ as it is
clearUnmarked(m) == <<[m EXCEPT !.headers = <<>>], None, None>>

\* HeaderMapping.clear
clear(m) == <<[m EXCEPT !.headers = <<>>, !.headers_modified = TRUE], None, None>>

\* the headers a user puts into the container
FewHeaders ==
    { MSRPHeader(To_Path, <<"x">>), MSRPHeader(To_Path, <<"y">>),
      MSRPHeader(Content_Type, <<"x">>), MSRPHeader(<<"X","-","F","o","o">>, <<"x">>) }

FewNames == {h.name : h \in FewHeaders}

\* the user's operation op with arguments args was applied to msg and gave r
Applied(op, args, r) ==
    /\ steps < MaxOps
    /\ msg' = r[1]
    /\ outcome' = Outcome(op, args, r[2], r[3])
    /\ steps' = steps + 1
    /\ UNCHANGED <<sent, nblocks, framer, copied, shared, hdr, written, uri>>

\* msg.headers[header.name] = header
PutHeader ==
    \E header \in FewHeaders :
        Applied("setitem", <<header>>, <<add_header(msg, header), None, None>>)

\* del msg.headers[key]
DelHeader == \E key \in FewNames : Applied("delitem", <<key>>, delitem(msg, key))

\* msg.headers.pop(key) and msg.headers.pop(key, None)
PopHeader ==
    \E key \in FewNames, default \in {None, Some(None)} :
        Applied("pop", <<key, default>>, pop(msg, key, default))

\* msg.headers.popitem()
PopItem == Applied("popitem", <<>>, popitem(msg))

\* msg.headers.setdefault(header.name, header)
SetDefault ==
    \E header \in FewHeaders :
        Applied("setdefault", <<header>>, setdefault(msg, header.name, header))

\* msg.headers.update(others)
Update ==
    \E others \in {<<>>, <<MSRPHeader(To_Path, <<"y">>), MSRPHeader(Content_Type, <<"x">>)>>} :
        Applied("update", <<others>>, update(msg, others))

\* msg.headers.clear()
Clear == Applied("clear", <<>>, clear(msg))

\* msg.transaction_id = tid
SetTid ==
    \E tid \in Tids :
        Applied("setattr", <<"transaction_id", tid>>,
                <<setattr(msg, "transaction_id", tid)[1], None, None>>)

InitHeaders ==
    /\ sent = <<>>
    /\ InitFramer
    /\ InitUser
    /\ msg \in StartMessages

NextHeaders ==
    \/ PutHeader \/ DelHeader \/ PopHeader \/ PopItem \/ SetDefault \/ Update \/ Clear
    \/ SetTid \/ Encode

\* a message whose headers and tid are changed MaxOps times, its header block
\* read at any time
SpecHeaders == InitHeaders /\ [][NextHeaders]_vars

\* C13: whatever was done to the header container (add, replace, delete,
\* pop, popitem, setdefault, update, clear) and assigned to transaction_id, a
\* read of encoded_header gives the serialization of the first line and the
\* headers as they are now; and a read that follows a read with no such
\* operation between them leaves the memoized block as it is
C13_HeaderBlockIsFresh ==
    /\ [](encoded_header(msg) = HeaderBlock(msg))
    /\ [][(~msg.modified /\ ~msg.headers_modified /\ steps' = steps)
            => (msg'.encoded_header = msg.encoded_header /\ msg' = msg)]_vars

\* C13 witness: the block was read, then the container was cleared of its
\* headers and the block is due again
C13_Witness ==
    /\ outcome.op = "clear"
    /\ msg.encoded_header # None
    /\ msg.encoded_header[1] # HeaderBlock(msg)
    /\ msg.headers_modified

--------------------------------------------------------------------------
(* Lines that start no chunk *)

\* C19: an empty line received in IDLE is ignored: it gives the sink no
\* event, so no illegal data that is just the line's CRLF is ever reported
\* (lineReceived reports a line with its delimiter, and a report made in
\* HEADERS starts with a first line)
C19_EmptyLineIgnored ==
    \A i \in 1..Len(events) : events[i].type = "illegal_data" => events[i].data # delimiter

--------------------------------------------------------------------------
(* Lines longer than MAX_LENGTH *)

\* the number of blocks a stream with a long line is delivered in
MaxLongBlocks == 4

LongLine == Repeat("a", MAX_LENGTH + 1)

\* a long line in IDLE and one in HEADERS, each followed by a chunk or by
\* the rest of one; MAX_LENGTH + 2 bytes without a delimiter; and a line of
\* MAX_LENGTH bytes, which is not too long
LongScenarios == {
    <<Bytes(LongLine \o delimiter), Item("bodyless", Send(T4), <<ShortLine>>, <<>>, T4, <<"$">>)>>,
    <<Item("bodyless", Send(T4), <<ShortLine, LongLine, ShortLine>>, <<>>, T4, <<"$">>)>>,
    <<Item("body", Send(T8), <<LongLine>>, Hi, T8, <<"+">>)>>,
    <<Bytes(LongLine \o <<"a">>)>>,
    <<Bytes(Repeat("a", MAX_LENGTH) \o delimiter),
      Item("bodyless", Send(T4), <<ShortLine>>, <<>>, T4, <<"$">>)>>
    }

\* a line of the stream is longer than MAX_LENGTH
HasLongLine(items) ==
    \E i \in 1..Len(items) :
        \/ StartsWith(items[i].body, LongLine)
        \/ \E k \in 1..Len(items[i].lines) : items[i].lines[k] = LongLine

InitLong ==
    /\ sent \in LongScenarios
    /\ InitFramer
    /\ InitUser
    /\ msg = NoMessage

\* the transport delivers the next k bytes of the stream: one or two, half
\* of MAX_LENGTH, MAX_LENGTH, or all that is left
DeliverLong ==
    /\ nblocks < MaxLongBlocks
    /\ \E k \in {1, 2, MAX_LENGTH \div 2, MAX_LENGTH, Len(stream) - rx} :
           /\ k >= 1
           /\ k <= Len(stream) - rx
           /\ Becomes(dataReceived(Self, SubSeq(stream, rx + 1, rx + k)))
    /\ nblocks' = nblocks + 1
    /\ UNCHANGED <<sent, msg, user>>

NextLong == DeliverLong

\* a stream with a long line delivered in at most MaxLongBlocks blocks
SpecLong == InitLong /\ [][NextLong]_vars

\* C20: when a line longer than MAX_LENGTH was received, in IDLE or in
\* HEADERS, the bytes of it were given to the sink as illegal data, the
\* message under way was dropped and the framer is in line mode again
C20_LongLineReported ==
    (HasLongLine(sent) /\ rx = Len(stream)) =>
        /\ \E i \in 1..Len(events) :
               events[i].type = "illegal_data" /\ Len(events[i].data) > MAX_LENGTH
        /\ line_mode

--------------------------------------------------------------------------
(* A message whose headers are verified *)

GoodPath == <<"m","s","r","p",":","/","/","h","/","s",";","t","c","p">>
OtherPath == <<"m","s","r","p","s",":","/","/","g",":","1","2","/","t",";","t","c","p">>
SchemePath == <<"h","t","t","p",":","/","/","h","/","s",";","t","c","p">>
TransportPath == <<"m","s","r","p",":","/","/","h","/","s",";","u","d","p">>
PortPath == <<"m","s","r","p",":","/","/","h",":","a","b","c","/","s",";","t","c","p">>

\* the headers a message is given besides its paths: <<name, text>>
TypedValues ==
    { <<Byte_Range, <<"1","-","2","/","3">>>>, <<Byte_Range, <<"1","-","*","/","*">>>>,
      <<Byte_Range, <<"x">>>>, <<Byte_Range, <<"1","-","2","/","3","x">>>>,
      <<Expires, <<"1","2">>>>, <<Expires, <<"a","b">>>>,
      <<Status, <<"0","0","0"," ","2","0","0">>>>, <<Status, <<"0","0","1"," ","2","0","0">>>>,
      <<Success_Report, <<"y","e","s">>>>, <<Success_Report, <<"m","a","y","b","e">>>>,
      <<Content_Type, <<"x">>>>, <<<<"X","-","F","o","o">>, <<"x">>>> }

\* the texts among them, and among the paths, that are not of the form the
\* header's grammar gives
Malformed ==
    { <<To_Path, SchemePath>>, <<To_Path, PortPath>>, <<From_Path, TransportPath>>,
      <<Byte_Range, <<"x">>>>, <<Byte_Range, <<"1","-","2","/","3","x">>>>,
      <<Expires, <<"a","b">>>>, <<Status, <<"0","0","1"," ","2","0","0">>>>,
      <<Success_Report, <<"m","a","y","b","e">>>> }

HeadersOf(pairs) == [k \in 1..Len(pairs) |-> MSRPHeader(pairs[k][1], pairs[k][2])]

\* the header lists of the messages verified: a To-Path or none, a From-Path
\* or none, another header or none, in this order or in the reverse one
VerifiedHeaders ==
    LET to == {<<>>} \cup {<<<<To_Path, v>>>> : v \in {GoodPath, SchemePath, PortPath}}
        from == {<<>>} \cup {<<<<From_Path, v>>>> : v \in {OtherPath, TransportPath}}
        other == {<<>>} \cup {<<p>> : p \in TypedValues}
    IN  {HeadersOf(t \o f \o o) : t \in to, f \in from, o \in other}
        \cup {HeadersOf(o \o f \o t) : t \in to, f \in from, o \in other}

InitVerify ==
    /\ sent = <<>>
    /\ InitFramer
    /\ \E headers \in VerifiedHeaders :
           msg = MSRPData(T4, Some(<<"S","E","N","D">>), None, None, headers, <<>>, <<"$">>)
    /\ InitUser

\* msg.verify_headers()
VerifyHeaders ==
    /\ steps < MaxOps
    /\ \E r \in {verify_headers(msg)} :
           /\ msg' = r[1]
           /\ outcome' = Outcome("verify_headers", <<msg.headers>>, r[2], r[3])
    /\ steps' = steps + 1
    /\ UNCHANGED <<sent, nblocks, framer, copied, shared, hdr, written, uri>>

NextVerify == VerifyHeaders

\* a message verified by its user
SpecVerify == InitVerify /\ [][NextVerify]_vars

\* the headers of the message verified that are malformed
MalformedHeaders(headers) ==
    {k \in 1..Len(headers) : <<headers[k].name, headers[k].encoded[1]>> \in Malformed}

\* C14: verify_headers fails with the missing-header error that names
\* To-Path when To-Path is absent, with the one that names From-Path when
\* only From-Path is absent, otherwise with a header-parse error when a
\* header present is malformed, and succeeds only when both paths are
\* present and every header decodes
C14_VerifyHeaders ==
    outcome.op = "verify_headers" =>
        LET headers == outcome.args[1]
        IN  IF ~HasHeader(headers, To_Path)
            THEN /\ outcome.raised = Some("HeaderParsingError")
                 /\ outcome.value = Some(<<To_Path, "header is missing">>)
            ELSE IF ~HasHeader(headers, From_Path)
            THEN /\ outcome.raised = Some("HeaderParsingError")
                 /\ outcome.value = Some(<<From_Path, "header is missing">>)
            ELSE IF MalformedHeaders(headers) # {}
            THEN /\ outcome.raised = Some("HeaderParsingError")
                 /\ outcome.value[1][2] = "cannot be decoded"
                 /\ \E k \in MalformedHeaders(headers) : outcome.value[1][1] = headers[k].name
            ELSE /\ outcome.raised = None
                 /\ \A k \in 1..Len(msg.headers) : msg.headers[k].decoded # None

--------------------------------------------------------------------------
(* Chunks received with headers that are absent or malformed *)

HeaderText(name, value) == name \o <<":", SP>> \o value

\* one chunk each: without To-Path, with a To-Path of another scheme, with a
\* Byte-Range and with an Expires that are none, and with nothing wrong
LazyScenarios == {
    <<Item("bodyless", Send(T4), <<HeaderText(From_Path, OtherPath)>>, <<>>, T4, <<"$">>)>>,
    <<Item("body", Send(T4), <<HeaderText(To_Path, SchemePath), HeaderText(From_Path, OtherPath)>>,
           Hi, T4, <<"$">>)>>,
    <<Item("bodyless", Send(T4),
           <<HeaderText(To_Path, GoodPath), HeaderText(From_Path, OtherPath),
             HeaderText(Byte_Range, <<"x">>)>>, <<>>, T4, <<"+">>)>>,
    <<Item("body", Send(T4),
           <<HeaderText(Expires, <<"a","b">>), HeaderText(To_Path, GoodPath),
             HeaderText(From_Path, OtherPath)>>, Hi, T4, <<"$">>)>>,
    <<Item("body", Send(T4),
           <<HeaderText(To_Path, GoodPath), HeaderText(From_Path, OtherPath),
             HeaderText(Byte_Range, <<"1","-","2","/","3">>)>>, Hi, T4, <<"$">>)>>
    }

InitLazy ==
    /\ sent \in LazyScenarios
    /\ InitFramer
    /\ InitUser
    /\ msg = NoMessage

\* the messages the sink was given with _data_start
Received == {events[i].msg[1] : i \in {j \in 1..Len(events) : events[j].type = "data_start"}}

\* the sink takes a message it was given and calls its verify_headers()
VerifyReceived ==
    /\ steps = 0
    /\ \E m \in Received : \E r \in {verify_headers(m)} :
           /\ msg' = r[1]
           /\ outcome' = Outcome("verify_headers", <<m.headers>>, r[2], r[3])
    /\ steps' = 1
    /\ UNCHANGED <<sent, nblocks, framer, copied, shared, hdr, written, uri>>

\* the sink takes a message it was given and reads the decoded form of one
\* of its headers
ReadReceived ==
    /\ steps = 0
    /\ \E m \in Received : \E k \in 1..Len(m.headers) : \E r \in {decoded_read(m.headers[k])} :
           /\ msg' = [m EXCEPT !.headers[k] = r.header]
           /\ outcome' = Outcome("decoded", <<m.headers[k]>>, r.raised, r.value)
    /\ steps' = 1
    /\ UNCHANGED <<sent, nblocks, framer, copied, shared, hdr, written, uri>>

NextLazy == Deliver \/ VerifyReceived \/ ReadReceived

\* a chunk delivered in at most MaxBlocks blocks, and what the sink makes of
\* the message
SpecLazy == InitLazy /\ [][NextLazy]_vars

\* C15: a chunk received without To-Path, or with a header whose text its
\* type does not decode, gives _data_start and _data_end and no illegal
\* data, and the framer decodes no header; the failure comes when the sink
\* calls verify_headers or reads the decoded form of the header
C15_HeaderFailuresAreLazy ==
    /\ \A i \in 1..Len(events) : events[i].type # "illegal_data"
    /\ \A m \in Received : \A k \in 1..Len(m.headers) : m.headers[k].decoded = None
    /\ rx = Len(stream) =>
           /\ Len(events) >= 2
           /\ events[1].type = "data_start"
           /\ Len(events[1].msg[1].headers) = Len(sent[1].lines)
           /\ events[Len(events)].type = "data_end"
    /\ (outcome.op = "verify_headers" /\ ~HasHeader(outcome.args[1], To_Path)) =>
           /\ outcome.raised = Some("HeaderParsingError")
           /\ outcome.value = Some(<<To_Path, "header is missing">>)
    /\ (outcome.op = "verify_headers" /\ MalformedHeaders(outcome.args[1]) # {}) =>
           outcome.raised = Some("HeaderParsingError")
    /\ outcome.op = "decoded" =>
           (outcome.raised = Some("HeaderParsingError")
               <=> <<outcome.args[1].name, outcome.args[1].encoded[1]>> \in Malformed)

--------------------------------------------------------------------------
(* A header object read and written by its user *)

\* the texts written to the encoded form of the header of a name
EncodedWrites(name) ==
    CASE name = Expires -> {<<"1","2">>, <<"0","0","7">>, <<"a","b">>}
      [] name = Byte_Range -> {<<"1","-","2","/","3">>, <<"1","-","*","/","*">>, <<"x">>}
      [] name = Status -> {<<"0","0","0"," ","2","0","0">>, <<"0","0","0"," ","4","0","4"," ","N","o">>,
                           <<"0","0","1"," ","2","0","0">>}
      [] name = To_Path -> {GoodPath, OtherPath, SchemePath}
      [] OTHER -> {<<"a">>, <<"b">>}

\* the values written to its decoded form, each with its class
DecodedWrites(name) ==
    CASE name = Expires -> {<<"int", 12>>, <<"int", 7>>, <<"str", <<"5">>>>, <<"str", <<"a","b">>>>}
      [] name = Byte_Range -> {<<"ByteRange", <<1, Some(2), Some(3)>>>>, <<"ByteRange", <<5, None, None>>>>,
                               <<"str", <<"1","-","2","/","3">>>>}
      [] name = Status -> {<<"Status", <<200, None>>>>, <<"Status", <<404, Some(<<"N","o">>)>>>>}
      [] name = To_Path -> {<<"deque", <<URI_parse(GoodPath)[2][1]>>>>,
                            <<"deque", <<URI_parse(OtherPath)[2][1], URI_parse(GoodPath)[2][1]>>>>}
      [] OTHER -> {<<"str", <<"c">>>>, <<"str", <<"a">>>>}

\* MSRPHeader(name, text) for one of five names
InitHeader ==
    /\ sent = <<>>
    /\ InitFramer
    /\ msg = NoMessage
    /\ copied = None
    /\ shared = {}
    /\ outcome = NoOutcome
    /\ steps = 0
    /\ uri = <<>>
    /\ \E name \in {Expires, Byte_Range, Status, To_Path, Content_Type} :
       \E text \in EncodedWrites(name) :
           /\ hdr = MSRPHeader(name, text)
           /\ written = <<"encoded", text>>

\* hdr.encoded = text
SetEncoded ==
    /\ steps < MaxOps
    /\ \E text \in EncodedWrites(hdr.name) :
           /\ hdr' = set_encoded(hdr, text)
           /\ written' = <<"encoded", text>>
           /\ outcome' = Outcome("set encoded", <<text>>, None, None)
    /\ steps' = steps + 1
    /\ UNCHANGED <<sent, nblocks, framer, msg, copied, shared, uri>>

\* hdr.decoded = value
SetDecoded ==
    /\ steps < MaxOps
    /\ \E given \in DecodedWrites(hdr.name) : \E r \in {decoded_write(hdr, given)} :
           /\ hdr' = r[1]
           /\ written' = IF r[2] = None THEN <<"decoded", given>> ELSE written
           /\ outcome' = Outcome("set decoded", <<given>>, r[2], None)
    /\ steps' = steps + 1
    /\ UNCHANGED <<sent, nblocks, framer, msg, copied, shared, uri>>

\* a read of hdr.encoded
GetEncoded ==
    /\ steps < MaxOps
    /\ \E r \in {encoded_read(hdr)} :
           /\ hdr' = r.header
           /\ outcome' = Outcome("encoded", <<>>, None, Some(r.value))
    /\ steps' = steps + 1
    /\ UNCHANGED <<sent, nblocks, framer, msg, copied, shared, written, uri>>

\* a read of hdr.decoded
GetDecoded ==
    /\ steps < MaxOps
    /\ \E r \in {decoded_read(hdr)} :
           /\ hdr' = r.header
           /\ outcome' = Outcome("decoded", <<>>, r.raised, r.value)
    /\ steps' = steps + 1
    /\ UNCHANGED <<sent, nblocks, framer, msg, copied, shared, written, uri>>

NextHeader == SetEncoded \/ SetDecoded \/ GetEncoded \/ GetDecoded

\* a header object read and written MaxOps times
SpecHeader == InitHeader /\ [][NextHeader]_vars

\* the decoded form that goes with the last write: <<the exception its
\* making raises, the form>>
WrittenDecoded ==
    IF written[1] = "encoded" THEN type_decode(HeaderType(hdr.name), written[2])
    ELSE IF written[2][1] = "str" /\ HeaderType(hdr.name) = "IntegerHeaderType"
    THEN <<None, IntOf(written[2][2])>>
    ELSE <<None, written[2][2]>>

\* the encoded form that goes with the last write
WrittenEncoded ==
    IF written[1] = "encoded" THEN written[2]
    ELSE type_encode(HeaderType(hdr.name), WrittenDecoded[2])

\* C16: the form of a header last written is the one that counts: a write
\* of one form discards the other, a read of the other makes it from the
\* form written and keeps it, and every read gives what goes with the last
\* write, never a form kept from before it
C16_LastWriteWins ==
    /\ written[1] = "encoded" =>
           /\ hdr.encoded = Some(written[2])
           /\ hdr.decoded # None => (WrittenDecoded[1] = None /\ hdr.decoded = Some(WrittenDecoded[2]))
    /\ written[1] = "decoded" =>
           /\ hdr.decoded = Some(WrittenDecoded[2])
           /\ hdr.encoded # None => hdr.encoded = Some(WrittenEncoded)
    /\ outcome.op = "set encoded" => hdr.decoded = None
    /\ (outcome.op = "set decoded" /\ outcome.raised = None) => hdr.encoded = None
    /\ outcome.op = "encoded" =>
           /\ outcome.value = Some(WrittenEncoded)
           /\ hdr.encoded = outcome.value
    /\ outcome.op = "decoded" =>
           IF WrittenDecoded[1] # None
           THEN outcome.raised = Some("HeaderParsingError") /\ hdr.decoded = None
           ELSE /\ outcome.raised = None
                /\ outcome.value = Some(WrittenDecoded[2])
                /\ hdr.decoded = outcome.value

\* a header whose decoded form was read and kept, then its encoded form
\* written, then its decoded form read again
C16_Witness ==
    /\ steps = 3
    /\ written[1] = "encoded"
    /\ written[2] # <<"1","2">>
    /\ hdr.name = Expires
    /\ outcome.op = "decoded"
    /\ outcome.raised = None
    /\ hdr.decoded # None

--------------------------------------------------------------------------
(* A message and its copy.  The copy's container is a new one that holds   *)
(* the header objects of the original: shared is the set of the names      *)
(* under which both containers still hold the same object.                 *)

\* MSRPData.copy
copy(m) ==
    MSRPData(m.transaction_id, m.method, m.code, m.comment, m.headers, m.data, m.contflag)

\* the headers after the encoded form of the header of a name was set
WithEncoded(headers, name, text) ==
    [k \in 1..Len(headers) |->
        IF headers[k].name = name THEN set_encoded(headers[k], text) ELSE headers[k]]

\* the messages copied: not encoded yet, and encoded once
CopiedMessages ==
    LET made == { MSRPData(T4, Some(<<"S","E","N","D">>), None, None, headers, Hi, <<"$">>) :
                    headers \in { <<MSRPHeader(To_Path, <<"x">>)>>,
                                  <<MSRPHeader(To_Path, <<"x">>), MSRPHeader(Content_Type, <<"x">>)>>,
                                  <<MSRPHeader(<<"X","-","F","o","o">>, <<"x">>),
                                    MSRPHeader(To_Path, <<"y">>)>> } }
    IN  made \cup {encoded_header_read(m) : m \in made}

InitCopy ==
    /\ sent = <<>>
    /\ InitFramer
    /\ msg \in CopiedMessages
    /\ InitUser

\* c = msg.copy()
Copy ==
    /\ copied = None
    /\ copied' = Some(copy(msg))
    /\ shared' = {msg.headers[k].name : k \in 1..Len(msg.headers)}
    /\ outcome' = Outcome("copy", <<>>, None, None)
    /\ UNCHANGED <<sent, nblocks, framer, msg, steps, hdr, written, uri>>

\* c.headers[header.name] = header, with a new header object
CopyPut ==
    /\ copied # None
    /\ steps < MaxOps
    /\ \E header \in FewHeaders :
           /\ copied' = Some(add_header(copied[1], header))
           /\ shared' = shared \ {header.name}
           /\ outcome' = Outcome("setitem", <<header>>, None, None)
    /\ steps' = steps + 1
    /\ UNCHANGED <<sent, nblocks, framer, msg, hdr, written, uri>>

\* del c.headers[key], for a key it has
CopyDel ==
    /\ copied # None
    /\ steps < MaxOps
    /\ \E key \in {copied[1].headers[k].name : k \in 1..Len(copied[1].headers)} :
           /\ copied' = Some(delitem(copied[1], key)[1])
           /\ shared' = shared \ {key}
           /\ outcome' = Outcome("delitem", <<key>>, None, None)
    /\ steps' = steps + 1
    /\ UNCHANGED <<sent, nblocks, framer, msg, hdr, written, uri>>

\* c.headers[key].encoded = text: the header object is msg's too while the
\* key is shared
CopySetEncoded ==
    /\ copied # None
    /\ steps < MaxOps
    /\ \E key \in {copied[1].headers[k].name : k \in 1..Len(copied[1].headers)} :
       \E text \in {<<"x">>, <<"z">>} :
           /\ copied' = Some([copied[1] EXCEPT !.headers = WithEncoded(@, key, text)])
           /\ msg' = IF key \in shared THEN [msg EXCEPT !.headers = WithEncoded(@, key, text)]
                     ELSE msg
           /\ outcome' = Outcome("set encoded", <<key, text>>, None, None)
    /\ steps' = steps + 1
    /\ UNCHANGED <<sent, nblocks, framer, shared, hdr, written, uri>>

NextCopy == Copy \/ CopyPut \/ CopyDel \/ CopySetEncoded \/ Encode

\* a message copied, and the copy's headers changed
SpecCopy == InitCopy /\ [][NextCopy]_vars

\* the names and the texts of the headers of a message, in their order
HeaderValues(m) == [k \in 1..Len(m.headers) |-> <<m.headers[k].name, encoded_read(m.headers[k]).value>>]

\* C18: once a message is copied, no change made to the copy's headers (a
\* header added, replaced or removed in the copy's container, a header
\* reached through it given another value) changes the original: the
\* names and the values of its headers and its encoded output stay as they
\* are
C18_CopyIsIndependent ==
    [][copied # None =>
          /\ HeaderValues(msg') = HeaderValues(msg)
          /\ encode(msg') = encode(msg)]_vars

--------------------------------------------------------------------------
(* Texts parsed as URIs *)

\* the texts given to URI.parse, by their parts: scheme "://" [user "@"] host
\* [":" port] "/" session-id ";" transport [";" params]
UriParts ==
    [ scheme     : {<<"m","s","r","p">>, <<"m","s","r","p","s">>, <<"h","t","t","p">>},
      user       : {None, Some(<<"u">>)},
      host       : {<<"h">>},
      port       : {None, Some(<<"1","2">>), Some(<<"a","b","c">>)},
      session_id : {<<"s">>},
      transport  : {<<"t","c","p">>, <<"u","d","p">>},
      parameters : {None, Some(<<"a","=","b">>), Some(<<"a">>), Some(<<"a","=","b",";","c","=","d">>)} ]

UriText(parts) ==
    parts.scheme \o <<":", "/", "/">>
    \o (IF parts.user = None THEN <<>> ELSE parts.user[1] \o <<"@">>)
    \o parts.host
    \o (IF parts.port = None THEN <<>> ELSE <<":">> \o parts.port[1])
    \o <<"/">> \o parts.session_id
    \o <<";">> \o parts.transport
    \o (IF parts.parameters = None THEN <<>> ELSE <<";">> \o parts.parameters[1])

InitUri ==
    /\ sent = <<>>
    /\ InitFramer
    /\ msg = NoMessage
    /\ copied = None
    /\ shared = {}
    /\ outcome = NoOutcome
    /\ steps = 0
    /\ hdr = MSRPHeader(<<"k">>, <<"v">>)
    /\ written = <<"encoded", <<"v">>>>
    /\ uri \in UriParts

\* what URI.parse(text) came to
ParseOutcome(text, r) == Outcome("URI.parse", <<text>>, r[1], r[2])

\* URI.parse(text)
Parse ==
    /\ steps = 0
    /\ outcome' = ParseOutcome(UriText(uri), URI_parse(UriText(uri)))
    /\ steps' = 1
    /\ UNCHANGED <<sent, nblocks, framer, msg, copied, shared, hdr, written, uri>>

NextUri == Parse

\* a text parsed as a URI
SpecUri == InitUri /\ [][NextUri]_vars

\* C17: URI.parse raises its parse error, and returns no URI, for a text
\* with a scheme other than msrp and msrps, with a transport other than tcp,
\* with a parameter that is no name=value pair, or with a port that is no
\* number
C17_BadUriRaises ==
    (/\ outcome.op = "URI.parse"
     /\ \/ uri.scheme \notin {<<"m","s","r","p">>, <<"m","s","r","p","s">>}
        \/ uri.transport # <<"t","c","p">>
        \/ uri.parameters = Some(<<"a">>)
        \/ (uri.port # None /\ \E k \in 1..Len(uri.port[1]) : uri.port[1][k] \notin DIGIT))
    => (outcome.raised = Some("ParsingError") /\ outcome.value = None)

--------------------------------------------------------------------------
(* Lines the idle framer takes for no first line *)

\* lines that are not empty and that first_line_re does not match: no
\* "MSRP ", a transaction id of three characters, a method in lower case, a
\* code of two digits, an end-line, a header line, bytes that are no UTF-8
IdleLines == {
    <<"Z", "Z">>,
    <<"$">>,
    <<"M","S","R","P"," ","a","b","c"," ","S","E","N","D">>,
    <<"M","S","R","P"," ","a","b","c","d"," ","s","e","n","d">>,
    <<"M","S","R","P"," ","a","b","c","d"," ","2","0">>,
    <<"-","-","-","-","-","-","-","a","b","c","d","$">>,
    ShortLine,
    <<XFF>>
    }

\* the stream of a line that starts no chunk, then a chunk without a body
LineThenChunk ==
    /\ Len(sent) = 2
    /\ sent[1] = Bytes(<<"Z", "Z", CR, LF>>)
    /\ sent[2].form = "bodyless"

\* C21: a line of IdleLines given to lineReceived while no chunk is being
\* received adds one illegal-data event with the line and its CRLF to the
\* sink's events and changes nothing else of the framer (no message, line
\* mode); and the chunk that follows such a line in the stream gives its
\* _data_start and its _data_end
C21_IllegalLineInIdle ==
    /\ (data = None /\ line_mode) =>
           \A line \in IdleLines :
               lineReceived(Self, line)
                   = [Self EXCEPT !.events = Append(@, IllegalData(line \o delimiter))]
    /\ LineThenChunk =>
           /\ rx >= 4 => (events # <<>> /\ events[1] = IllegalData(<<"Z", "Z", CR, LF>>))
           /\ rx = 4 => (Len(events) = 1 /\ data = None /\ line_mode /\ buffer = <<>>)
           /\ Delivered =>
                  /\ Len(events) = 3
                  /\ events[2].type = "data_start"
                  /\ events[2].msg[1].first_line = sent[2].first
                  /\ HeaderSet(events[2].msg[1].headers) = {<<To_Path, <<"x">>>>}
                  /\ events[3] = DataEnd(sent[2].flag)
                  /\ data = None
                  /\ line_mode

\* C21 witness: the line was reported and the chunk after it was received
C21_Witness ==
    /\ LineThenChunk
    /\ Delivered
    /\ nblocks = MaxBlocks
    /\ Len(events) = 3
    /\ events[1].type = "illegal_data"
    /\ events[3].type = "data_end"

--------------------------------------------------------------------------
(* End-lines among the header lines *)

Dashes == <<"-","-","-","-","-","-","-">>

\* lines that look like the end-line of the chunk tid but are not: another
\* transaction id, no flag, two flags, something before the dashes
OtherEndLines(tid) == {
    Dashes \o PyUpTo(tid, Len(tid) - 1) \o <<"e", "$">>,
    Dashes \o PyUpTo(tid, Len(tid) - 1) \o <<"$">>,
    Dashes \o tid \o <<"e", "$">>,
    Dashes \o tid,
    Dashes \o tid \o <<"!">>,
    Dashes \o tid \o <<"$", "$">>,
    <<SP>> \o Dashes \o tid \o <<"$">>
    }

\* the framer is receiving the header lines of a chunk
InHeaders == data # None /\ line_mode

\* a chunk without a body, of few header lines, is sent first
BodylessFirst ==
    /\ sent # <<>>
    /\ sent[1].form = "bodyless"
    /\ Len(sent[1].lines) <= MAX_LINES

\* C22: among a chunk's header lines, the line "-------" tid flag with the
\* chunk's tid and a flag of $, # and + ends the chunk: lineReceived adds
\* _data_start (the message, the line its footer) and _data_end with the
\* flag, writes no body, stays in line mode and leaves no message; a line
\* of OtherEndLines ends nothing and adds no event.  A chunk sent without a
\* body gives _data_start and _data_end with its flag, no write in between,
\* and was never in raw mode.
C22_EndLineInHeaders ==
    /\ InHeaders =>
           \A f \in ContinuationFlags :
               LET line  == Dashes \o data[1].transaction_id \o <<f>>
                   ended == [data[1] EXCEPT !.chunk_footer = Some(line \o delimiter)]
               IN  lineReceived(Self, line)
                     = [Self EXCEPT !.events = @ \o <<DataStart(ended), DataEnd(<<f>>)>>,
                                    !.body_at = Append(@, -1),
                                    !.data = None,
                                    !.line_count = 0]
    /\ (InHeaders /\ line_count < MAX_LINES) =>
           \A line \in OtherEndLines(data[1].transaction_id) :
               /\ lineReceived(Self, line).events = events
               /\ lineReceived(Self, line).data # None
               /\ lineReceived(Self, line).line_mode
    /\ BodylessFirst =>
           /\ rx <= Len(Wire(sent[1])) =>
                  (line_mode /\ \A i \in 1..Len(events) : events[i].type # "data_write")
           /\ rx >= Len(Wire(sent[1])) =>
                  /\ Len(events) >= 2
                  /\ events[1].type = "data_start"
                  /\ events[1].msg[1].chunk_header = Some(HeadWire(sent[1]))
                  /\ events[2] = DataEnd(sent[1].flag)
                  /\ body_at[1] = -1
           /\ rx = Len(Wire(sent[1])) => (Len(events) = 2 /\ data = None)

\* C22 witness: a chunk without a body, another chunk's end-line among its
\* header lines, was received
C22_Witness ==
    /\ BodylessFirst
    /\ Delivered
    /\ \E i \in 1..Len(sent[1].lines) : sent[1].lines[i] \in OtherEndLines(sent[1].tid)
    /\ Len(events) = 2
    /\ events[2].type = "data_end"

--------------------------------------------------------------------------
(* Chunks back to back *)

IsEnd(e) == e.type = "data_end"

\* two chunks with a body, one after the other
TwoBodyChunks ==
    /\ Len(sent) = 2
    /\ \A k \in 1..2 : sent[k].form = "body" /\ sent[k].flag \in {<<"$">>, <<"#">>, <<"+">>}

\* C23: of two chunks with a body sent back to back, however the stream is
\* cut into blocks, each gives its _data_start, its body in writes and its
\* _data_end with its flag; nothing is reported as illegal data and the
\* framer is idle in line mode at the end
C23_BackToBack ==
    (TwoBodyChunks /\ Delivered) =>
        /\ \A i \in 1..Len(events) : events[i].type # "illegal_data"
        /\ Cardinality(StartIndexes(events)) = 2
        /\ \A k \in 1..2 :
               /\ events[StartIndex(events, k)].msg[1].first_line = sent[k].first
               /\ WrittenAfter(events, StartIndex(events, k)) = sent[k].body
        /\ SelectSeq(events, IsEnd) = <<DataEnd(sent[1].flag), DataEnd(sent[2].flag)>>
        /\ data = None
        /\ line_mode

--------------------------------------------------------------------------
(* The bytes kept back while a body is received *)

\* the longest suffix of bytes that is a prefix, not empty, of the terminator
\* of tid followed by a flag and CR
KeptSuffix(bytes, tid) ==
    LET lengths == {k \in 1..Len(bytes) :
                       \E f \in ContinuationFlags :
                           IsPrefix(PyFrom(bytes, Len(bytes) - k), Terminator(tid) \o <<f, CR>>)}
    IN  IF lengths = {} THEN <<>>
        ELSE PyFrom(bytes, Len(bytes) - (CHOOSE k \in lengths : \A j \in lengths : j <= k))

\* C24: a block that arrives in raw mode and, after the bytes kept back,
\* does not hold the terminator leaves in term_buf the longest suffix of
\* (term_buf + block) that is a prefix of the terminator, or of it with a
\* flag and CR (nothing when there is none), and gives the sink the bytes
\* before it in one write that is not final; and in raw mode the bytes
\* written for the chunk followed by term_buf are the bytes received since
\* raw mode was entered
C24_StraddleKept ==
    /\ [](( ~line_mode /\ data # None) =>
             WrittenAfter(events, StartIndex(events, Len(body_at))) \o term_buf
                 = SubSeq(stream, body_at[Len(body_at)] + 1, rx))
    /\ [][ LET both == term_buf \o SubSeq(stream, rx + 1, rx')
               kept == KeptSuffix(both, data[1].transaction_id)
           IN  ( /\ ~line_mode
                 /\ data # None
                 /\ rx' > rx
                 /\ Find(both, Terminator(data[1].transaction_id)) = -1 ) =>
                   /\ term_buf' = kept
                   /\ events' = Append(events, DataWrite(PyUpTo(both, Len(both) - Len(kept)), FALSE))
                   /\ ~line_mode'
                   /\ data' = data ]_vars

\* C24 witness: a second block without the terminator has arrived in raw
\* mode; a part of the body was written and the CR and LF after it are
\* kept back
C24_Witness ==
    /\ ~line_mode
    /\ data # None
    /\ term_buf = delimiter
    /\ Len(events) >= 3
    /\ events[Len(events)] = DataWrite(<<"i">>, FALSE)
    /\ events[Len(events) - 1] = DataWrite(<<"H">>, FALSE)

--------------------------------------------------------------------------
(* Header lines that are no headers *)

\* lines, not empty, that hold no ": " and are no end-line of the chunk
\* abcd: a word, a colon without a space, a space before the colon, bytes
\* that are no UTF-8, another chunk's end-line
SkippedLines == {
    <<"k">>,
    <<"k", ":", "v">>,
    <<"k", " ", ":", "v">>,
    <<XFF>>,
    <<"-","-","-","-","-","-","-","a","b","c","e","$">>
    }

\* C25 as claimed: a line of SkippedLines among a chunk's header lines adds
\* no event, leaves the framer in line mode with a message, and the
\* message's first line and headers as they were
C25_SkippedAlways ==
    InHeaders =>
        \A line \in SkippedLines :
            /\ lineReceived(Self, line).events = events
            /\ lineReceived(Self, line).line_mode
            /\ lineReceived(Self, line).data # None
            /\ lineReceived(Self, line).data[1].headers = data[1].headers
            /\ lineReceived(Self, line).data[1].first_line = data[1].first_line

\* C25 as amended: while the chunk has fewer than MAX_LINES header lines, a
\* line of SkippedLines is counted and added to the message's chunk_header,
\* and nothing else of the framer or of the message changes: no event, no
\* header, line mode, the same message
C25_SkippedUnderLimit ==
    (InHeaders /\ line_count < MAX_LINES) =>
        \A line \in SkippedLines :
            lineReceived(Self, line)
              = [Self EXCEPT !.data = Some([@[1] EXCEPT !.chunk_header = Some(@[1] \o line \o delimiter)]),
                             !.line_count = @ + 1]

\* C25 witness: three lines without ": " were received after the first line
C25_Witness ==
    /\ InHeaders
    /\ line_count = 3
    /\ data[1].headers = <<>>
    /\ data[1].chunk_header = Some(Send(T4) \o delimiter \o <<"k", CR, LF, "k", CR, LF, "k", CR, LF>>)
    /\ events = <<>>

--------------------------------------------------------------------------
(* The order of the sink's events *)

\* a chunk is open after the events evs: the last of them is a _data_start
\* or a _data_write
ChunkOpen(evs) ==
    evs # <<>> /\ evs[Len(evs)].type \in {"data_start", "data_write"}

\* C26: in the sink's events a _data_write and a _data_end come only while
\* a chunk is open (after its _data_start and the writes that followed it,
\* before the next _data_start), a _data_start and an illegal-data come
\* only while none is open; and the framer is in raw mode exactly while a
\* chunk is open, and then has a message
C26_WellBracketed ==
    /\ \A i \in 1..Len(events) :
           IF events[i].type \in {"data_write", "data_end"}
           THEN ChunkOpen(SubSeq(events, 1, i - 1))
           ELSE ~ChunkOpen(SubSeq(events, 1, i - 1))
    /\ ~line_mode <=> ChunkOpen(events)
    /\ ~line_mode => data # None

\* C26 witness: a chunk with its body was received whole, then bytes that
\* are no chunk were reported, in as many blocks as there may be
C26_Witness ==
    /\ Delivered
    /\ nblocks = MaxBlocks
    /\ Len(events) >= 4
    /\ events[1].type = "data_start"
    /\ events[Len(events) - 1].type = "data_end"
    /\ events[Len(events)].type = "illegal_data"
    /\ \A i \in 2..(Len(events) - 2) : events[i].type = "data_write"

--------------------------------------------------------------------------
(* A message whose stored headers are given other values *)

\* msg.headers[key].encoded = text, for a key the container holds: the
\* setter of the header object runs, the container is not touched
StoredSetEncoded ==
    /\ steps < MaxOps
    /\ \E key \in {msg.headers[k].name : k \in 1..Len(msg.headers)} :
       \E text \in {<<"x">>, <<"z">>} :
           /\ msg' = [msg EXCEPT !.headers = WithEncoded(@, key, text)]
           /\ outcome' = Outcome("set encoded", <<key, text>>, None, None)
    /\ steps' = steps + 1
    /\ UNCHANGED <<sent, nblocks, framer, copied, shared, hdr, written, uri>>

NextStored == StoredSetEncoded \/ PutHeader \/ Encode

\* a message, encoded or not yet, whose headers are given other values
\* through the header objects and through the container
SpecStored == InitCopy /\ [][NextStored]_vars

\* C27: what encode returns is the first line and the headers with the
\* values they have now, then the body and the end-line
C27_EncodeIsCurrent ==
    encode(msg) = HeaderBlock(msg) \o msg.data \o encoded_footer(msg)

--------------------------------------------------------------------------
(* The bytes kept back, from one chunk to the next *)

\* bytes of a body that end with no part of a terminator
FirstBodyBytes == {<<"b">>, Hi, <<"-", "a">>}

\* C28: the empty line that ends a chunk's header lines leaves term_buf
\* empty and the framer in raw mode, whatever term_buf held; the first
\* bytes that then arrive are written to the sink as they are, nothing
\* before them; and of every chunk the bytes written are bytes received
\* after its body was entered
C28_NoLeakAcrossChunks ==
    /\ InHeaders =>
           /\ lineReceived(Self, <<>>).term_buf = <<>>
           /\ ~lineReceived(Self, <<>>).line_mode
           /\ \A bytes \in FirstBodyBytes :
                  rawDataReceived(lineReceived(Self, <<>>), bytes).events
                      = Append(lineReceived(Self, <<>>).events, DataWrite(bytes, FALSE))
    /\ \A k \in 1..Len(body_at) :
           body_at[k] >= 0 =>
               IsPrefix(WrittenAfter(events, StartIndex(events, k)), PyFrom(stream, body_at[k]))

\* C28 witness: the header lines of a second chunk are being received while
\* term_buf holds bytes kept back during the first chunk's body
C28_Witness ==
    /\ InHeaders
    /\ term_buf # <<>>
    /\ Len(body_at) = 1
    /\ body_at[1] >= 0
    /\ data[1].transaction_id = T4
    /\ line_count = 1

======================================================================
